---- MODULE Spec2Model ----
(***************************************************************************)
(* The correlated request bridge of orksys-protector: HTTP handlers write  *)
(* a pending marker into the shared state store, publish a work event,     *)
(* poll the store for a terminal record and map it to an HTTP response;    *)
(* event workers perform the privileged call and write the terminal        *)
(* record.                                                                 *)
(*                                                                         *)
(* Time is counted in units of 100 ms, per call of waitForRequestResult:   *)
(* elapsed[i] is Date.now() - startTime.  A state.get is one atomic read   *)
(* and the sleep between two polls lasts exactly the poll interval; the    *)
(* steps of the workers interleave freely with the polls.                  *)
(***************************************************************************)
EXTENDS Integers, Sequences, FiniteSets, TLC

\* ------------------------------------------------------------------ bounds
NumRequests == 1        \* HTTP requests (one fresh requestId each)
TimeoutPolls == 2       \* the timeout budget, counted in poll intervals
MaxEvictions == 1       \* external evictions of a store entry
MaxEmitDelay == 2       \* longest measured duration of an emit, in 100 ms
MaxRedeliveries == 1    \* repeated deliveries of one work event

\* ------------------------------------------------- program constants
POLL_INTERVAL_MS == 1   \* 100 ms
pollInterval == 5       \* 500 ms, the RagQuery copy

\* the budgets, scaled down from 10 s (100 polls) and 60 s (120 polls)
STATE_TIMEOUT_MS == TimeoutPolls * POLL_INTERVAL_MS
RagTimeoutMs == TimeoutPolls * pollInterval

\* the two exchanges of the isolation property, by order of arrival
ExchangePair == {1, 2}

\* the slots of the HTTP requests, by order of arrival: Spec fills the first
\* NumRequests of them with requests of every kind
Requests == (1..NumRequests) \cup ExchangePair

\* generateRequestId in which every call returns the same id
generateRequestIdConstant(i) == 1

\* generateRequestId: randomUUID(), a fresh id at every call; the n-th
\* request gets the id n
generateRequestId(i) == i

Groups == {"org-requests", "admin-requests", "rag-workflow"}

OrganizationOperations ==
  {"UpdateOrganization", "DeleteOrganization", "LeaveOrganization",
   "AddOrganizationMember", "RemoveOrganizationMember", "UpdateMemberRole",
   "CreateInvitation", "CancelInvitation"}

AdminOperations == {"AdminDeleteUser", "AdminBanUser", "AdminSetRole"}

Operations == OrganizationOperations \cup AdminOperations \cup {"RagQuery"}

\* callers that all use the group of the organization endpoints
CallerGroupSingle(op) == IF op = "RagQuery" THEN "rag-workflow" ELSE "org-requests"

\* the group a caller passes to initRequest and waitForRequestResult
CallerGroup(op) ==
  CASE op = "UpdateOrganization" -> "org-requests"
    [] op = "DeleteOrganization" -> "org-requests"
    [] op = "LeaveOrganization" -> "org-requests"
    [] op = "AddOrganizationMember" -> "org-requests"
    [] op = "RemoveOrganizationMember" -> "org-requests"
    [] op = "UpdateMemberRole" -> "org-requests"
    [] op = "CreateInvitation" -> "org-requests"
    [] op = "CancelInvitation" -> "org-requests"
    [] op = "AdminDeleteUser" -> "admin-requests"
    [] op = "AdminBanUser" -> "admin-requests"
    [] op = "AdminSetRole" -> "admin-requests"
    [] op = "RagQuery" -> "rag-workflow"

\* the topic of the work event a caller emits
RequestTopic(op) ==
  CASE op = "UpdateOrganization" -> "organization.update.requested"
    [] op = "DeleteOrganization" -> "organization.delete.requested"
    [] op = "LeaveOrganization" -> "organization.leave.requested"
    [] op = "AddOrganizationMember" -> "organization.member.add.requested"
    [] op = "RemoveOrganizationMember" -> "organization.member.remove.requested"
    [] op = "UpdateMemberRole" -> "organization.member.roleUpdate.requested"
    [] op = "CreateInvitation" -> "organization.invitation.create.requested"
    [] op = "CancelInvitation" -> "organization.invitation.cancel.requested"
    [] op = "AdminDeleteUser" -> "admin.user.delete.requested"
    [] op = "AdminBanUser" -> "admin.user.ban.requested"
    [] op = "AdminSetRole" -> "admin.user.setRole.requested"
    [] op = "RagQuery" -> "rag.query.requested"

\* the body of the 500 response of a handler's own catch block
CatchMessage(op) ==
  CASE op = "UpdateOrganization" -> "Organization update failed"
    [] op = "DeleteOrganization" -> "Organization deletion failed"
    [] op = "LeaveOrganization" -> "Failed to leave organization"
    [] op = "AddOrganizationMember" -> "Failed to add member"
    [] op = "RemoveOrganizationMember" -> "Failed to remove member"
    [] op = "UpdateMemberRole" -> "Failed to update member role"
    [] op = "CreateInvitation" -> "Failed to create invitation"
    [] op = "CancelInvitation" -> "Failed to cancel invitation"
    [] op = "AdminDeleteUser" -> "Failed to delete user"
    [] op = "AdminBanUser" -> "Failed to ban user"
    [] op = "AdminSetRole" -> "Failed to set user role"
    [] op = "RagQuery" -> "Failed to process RAG query"

\* ------------------------------------------------------------ JSON values
Absent == [absent |-> TRUE]               \* state.get found nothing (null)
Undefined == [undefined |-> TRUE]         \* a missing property
UndefinedStatus == 0                      \* status: undefined

EmptyData == [f \in {} |-> TRUE]          \* the {} every caller passes

Payloads == {[value |-> "a"], [value |-> "b"]}

IsTerminal(r) == r # Absent /\ "status" \in DOMAIN r /\ r.status \in {"completed", "failed"}

Completed(d) == [status |-> "completed", data |-> d]
Failed(e, sc) == [status |-> "failed", error |-> e, statusCode |-> sc]
FailedNoCode(e) == [status |-> "failed", error |-> e]

\* --------------------------------------------------- shared state-request
\* an initRequest that marks the request completed
initRequestRecordCompleted(requestData) == requestData @@ [status |-> "completed"]

\* initRequest: state.set(groupId, requestId, {status:'pending', ...requestData})
initRequestRecord(requestData) == requestData @@ [status |-> "pending"]

TimeoutResult ==
  [status |-> "failed", error |-> "Request processing timed out", statusCode |-> 504]

\* waitForRequestResult with the test of the RagQuery copy (any record ends the wait)
waitForRequestResultAnyRecord(got, elapsed, timeoutMs) ==
  IF ~(elapsed < timeoutMs)
    THEN [kind |-> "return", value |-> TimeoutResult]
    ELSE IF got # Absent
      THEN [kind |-> "return", value |-> got]
      ELSE [kind |-> "sleep", delay |-> POLL_INTERVAL_MS]

\* waitForRequestResult that returns the status of the record without its
\* other properties
waitForRequestResultStatusOnly(got, elapsed, timeoutMs) ==
  IF ~(elapsed < timeoutMs)
    THEN [kind |-> "return", value |-> TimeoutResult]
    ELSE IF got # Absent /\ got.status # "pending"
      THEN [kind |-> "return",
            value |-> IF got.status = "completed" THEN Completed(EmptyData) ELSE got]
      ELSE [kind |-> "sleep", delay |-> POLL_INTERVAL_MS]

\* waitForRequestResult whose loop test lets two more sleeps pass
waitForRequestResultLateDeadline(got, elapsed, timeoutMs) ==
  IF ~(elapsed < timeoutMs + 2 * POLL_INTERVAL_MS)
    THEN [kind |-> "return", value |-> TimeoutResult]
    ELSE IF got # Absent /\ got.status # "pending"
      THEN [kind |-> "return", value |-> got]
      ELSE [kind |-> "sleep", delay |-> POLL_INTERVAL_MS]

\* waitForRequestResult whose sleep lasts two poll intervals
waitForRequestResultLongSleep(got, elapsed, timeoutMs) ==
  IF ~(elapsed < timeoutMs)
    THEN [kind |-> "return", value |-> TimeoutResult]
    ELSE IF got # Absent /\ got.status # "pending"
      THEN [kind |-> "return", value |-> got]
      ELSE [kind |-> "sleep", delay |-> 2 * POLL_INTERVAL_MS]

\* waitForRequestResult that treats a missing record as an error
waitForRequestResultAbsentThrows(got, elapsed, timeoutMs) ==
  IF ~(elapsed < timeoutMs)
    THEN [kind |-> "return", value |-> TimeoutResult]
    ELSE IF got = Absent
      THEN [kind |-> "throw", error |-> "Request not found"]
      ELSE IF got.status # "pending"
        THEN [kind |-> "return", value |-> got]
        ELSE [kind |-> "sleep", delay |-> POLL_INTERVAL_MS]

\* one iteration of the while loop of waitForRequestResult; `got` is what
\* state.get returns when the loop condition holds
waitForRequestResult(got, elapsed, timeoutMs) ==
  IF ~(elapsed < timeoutMs)
    THEN [kind |-> "return", value |-> TimeoutResult]
    ELSE IF got # Absent /\ got.status # "pending"
      THEN [kind |-> "return", value |-> got]
      ELSE [kind |-> "sleep", delay |-> POLL_INTERVAL_MS]

\* the private copy in the RagQuery step
ragWaitForRequestResult(got, elapsed, timeoutMs) ==
  IF ~(elapsed < timeoutMs)
    THEN [kind |-> "throw", error |-> "Request timeout"]
    ELSE IF got # Absent
      THEN [kind |-> "return", value |-> got]
      ELSE [kind |-> "sleep", delay |-> pollInterval]

\* ----------------------------------------------------- result -> response
Response(st, b) == [status |-> st, body |-> b]

\* bridge handlers: statusCode ?? 400, {error}; otherwise 200 with data
MapResult(result) ==
  IF result.status = "failed"
    THEN Response(IF "statusCode" \in DOMAIN result THEN result.statusCode ELSE 400,
                  [error |-> result.error])
    ELSE Response(200, IF "data" \in DOMAIN result THEN result.data ELSE Undefined)

\* RagQuery: status: result.statusCode, no default
RagMapResult(result) ==
  IF result.status = "failed"
    THEN Response(IF "statusCode" \in DOMAIN result THEN result.statusCode ELSE UndefinedStatus,
                  [error |-> result.error])
    ELSE Response(200, IF "data" \in DOMAIN result THEN result.data ELSE Undefined)

\* a catch block that blames the client
HandlerCatchBadRequest(op) == Response(400, [error |-> CatchMessage(op)])

\* the catch block of a bridge handler
HandlerCatch(op) == Response(500, [error |-> CatchMessage(op)])

\* the catch block of RagQuery
RagCatch(message) ==
  IF message = "Request timeout"
    THEN Response(504, [error |-> "Query processing timeout"])
    ELSE Response(500, [error |-> "Failed to process RAG query"])

\* ------------------------------------------------------------- middleware
\* what a handler (or an inner middleware) hands to the middleware around it
Returned(r) == [kind |-> "response", response |-> r]
Thrown(e) == [kind |-> "throw", error |-> e]

\* errorHandlerMiddleware: ZodError -> 400 with details, anything else -> 500
errorHandlerMiddleware(outcome) ==
  IF outcome.kind = "response" THEN outcome
  ELSE IF outcome.error = "ZodError"
    THEN Returned(Response(400, [error |-> "Validation failed", details |-> "issues"]))
    ELSE Returned(Response(500, [error |-> "Internal server error"]))

\* authMiddleware: no session -> 401 without calling next(); next() runs
\* inside its try block, so whatever next() throws becomes a 401 too
authMiddleware(session, outcome) ==
  IF ~session
    THEN Returned(Response(401, [error |-> "Unauthorized - Valid authentication required"]))
    ELSE IF outcome.kind = "throw"
      THEN Returned(Response(401, [error |-> "Authentication failed"]))
      ELSE outcome

\* organizationMiddleware: 403 unless the user is a member of the
\* organization; next() runs inside its try block
organizationMiddleware(role, outcome) ==
  IF role = "none"
    THEN Returned(Response(403, [error |-> "Forbidden - Not a member of this organization"]))
    ELSE IF outcome.kind = "throw"
      THEN Returned(Response(500, [error |-> "Failed to verify organization membership"]))
      ELSE outcome

\* a role middleware that lets every member of the organization pass
organizationRoleMiddlewareAnyMember(allowedRoles, role, outcome) == outcome

\* organizationRoleMiddleware(allowedRoles)
organizationRoleMiddleware(allowedRoles, role, outcome) ==
  IF role \notin allowedRoles
    THEN Returned(Response(403, [error |-> "Forbidden - Insufficient permissions"]))
    ELSE outcome

organizationOwnerMiddleware(role, outcome) ==
  organizationRoleMiddleware({"owner"}, role, outcome)

organizationAdminMiddleware(role, outcome) ==
  organizationRoleMiddleware({"owner", "admin"}, role, outcome)

\* an admin middleware that lets every authenticated user pass
adminMiddlewareAnyUser(role, outcome) == outcome

\* adminMiddleware: 403 unless user.role is 'admin'
adminMiddleware(role, outcome) ==
  IF role # "admin"
    THEN Returned(Response(403, [error |-> "Forbidden - Admin access required"]))
    ELSE outcome

\* config.middleware of the step (RagQuery declares none)
HasMiddleware(op) == op # "RagQuery"

\* the roles a request can come with: the membership role in the addressed
\* organization, or user.role for the admin routes
Roles(op) ==
  CASE op \in OrganizationOperations -> {"none", "member", "admin", "owner"}
    [] op \in AdminOperations -> {"user", "admin"}
    [] op = "RagQuery" -> {"none"}

\* the middleware chain of step op around the outcome of its handler
Chain(op, session, role, outcome) ==
  CASE op \in {"UpdateOrganization", "AddOrganizationMember", "RemoveOrganizationMember",
               "CreateInvitation", "CancelInvitation"} ->
         errorHandlerMiddleware(authMiddleware(session,
           organizationMiddleware(role, organizationAdminMiddleware(role, outcome))))
    [] op \in {"DeleteOrganization", "UpdateMemberRole"} ->
         errorHandlerMiddleware(authMiddleware(session,
           organizationMiddleware(role, organizationOwnerMiddleware(role, outcome))))
    [] op = "LeaveOrganization" ->
         errorHandlerMiddleware(authMiddleware(session,
           organizationMiddleware(role, outcome)))
    [] op \in AdminOperations ->
         errorHandlerMiddleware(authMiddleware(session, adminMiddleware(role, outcome)))
    [] op = "RagQuery" -> outcome

\* the response the client gets for a handler outcome; an exception that
\* escapes the step is answered by the framework with a bare 500
ThroughMiddleware(op, session, role, outcome) ==
  LET final == Chain(op, session, role, outcome)
  IN IF final.kind = "response" THEN final.response
     ELSE Response(500, [unhandled |-> final.error])

\* the handler is invoked only if every middleware calls next(): the chain
\* then hands what next() returned back unchanged
HandlerInvoked(op, session, role) ==
  LET fromNext == Returned(Response(200, [next |-> TRUE]))
  IN Chain(op, session, role, fromNext) = fromNext

\* ------------------------------------------------------------ the callers
\* a handler that publishes the work event before it calls initRequest
BridgeStepAfterEmitFirst(step) ==
  CASE step = "start" -> "emit"
    [] step = "emit" -> "init"
    [] step = "init" -> "poll"

\* a handler that publishes the work event again after each publish
BridgeStepAfterRepublish(step) ==
  CASE step = "start" -> "init"
    [] step = "init" -> "emit"
    [] step = "emit" -> "emit"

\* order of the awaited bridge steps in a handler: initRequest, emit, wait
BridgeStepAfter(step) ==
  CASE step = "start" -> "init"
    [] step = "init" -> "emit"
    [] step = "emit" -> "poll"

\* the handlers that parse a request body
HasBody(op) == op \notin {"DeleteOrganization", "LeaveOrganization", "RemoveOrganizationMember"}

\* the handlers with a check of their own before initRequest: the user
\* lookup of AddOrganizationMember and the self-deletion test of
\* AdminDeleteUser
HasPreCheck(op) == op \in {"AddOrganizationMember", "AdminDeleteUser"}

PreCheckResponse(op) ==
  CASE op = "AddOrganizationMember" ->
         Response(404, [error |->
           "User not found. User must register first before being added to an organization."])
    [] op = "AdminDeleteUser" ->
         Response(400, [error |-> "Cannot delete your own account"])

\* a handler that starts the exchange without its own check
HandlerPrologueNoPreCheck(op, bodyValid, groqKey, preCheckOk) ==
  IF op # "RagQuery" /\ bodyValid THEN Thrown("continue")
  ELSE IF op # "RagQuery" THEN Returned(HandlerCatch(op))
  ELSE IF ~bodyValid THEN Thrown("ZodError")
  ELSE Thrown("continue")

\* the handler's code before initRequest: bodySchema.parse, the handler's
\* own check and the configuration check of RagQuery.  Bridge handlers parse
\* inside their own try block, RagQuery parses before it.
HandlerPrologue(op, bodyValid, groqKey, preCheckOk) ==
  IF op = "RagQuery"
    THEN IF ~bodyValid THEN Thrown("ZodError")
         ELSE IF ~groqKey
           THEN Returned(Response(500,
                  [error |-> "RAG system not properly configured - missing GROQ_API_KEY"]))
           ELSE Thrown("continue")
    ELSE IF ~bodyValid THEN Returned(HandlerCatch(op))
         ELSE IF ~preCheckOk THEN Returned(PreCheckResponse(op))
         ELSE Thrown("continue")

\* the catch block that surrounds the bridge steps of handler op
CatchResponse(op, message) ==
  IF op = "RagQuery" THEN RagCatch(message) ELSE HandlerCatch(op)

NoRequest == [op |-> "none"]
NoResult == [status |-> "none"]
NoResponse == [status |-> UndefinedStatus, body |-> [none |-> TRUE]]

VARIABLES
  store,      \* the state store: [Groups \X Requests -> record or Absent]
  queue,      \* work events published and not yet delivered
  req,        \* the HTTP request of each slot (its inputs)
  cpc,        \* where each handler stands
  elapsed,    \* Date.now() - startTime inside waitForRequestResult
  sinceInit,  \* time since initRequest returned
  emitCalls,  \* history: calls of emit each handler has made
  result,     \* what waitForRequestResult returned, or the error thrown
              \* inside the handler's try block
  response,   \* the HTTP response
  evictions,  \* count of external evictions
  pendingWritten, \* history: initRequest of the slot has stored its record
  wpc,        \* where the worker of each requestId stands
  wval,       \* the worker's local values (Better Auth result or error)
  wwrites,    \* the terminal records each worker invocation has written
  wtimes,     \* history: elapsed of the caller at each of these writes
  audit,      \* audit events emitted by the workers
  redelivered \* history: the record each earlier delivery of the work event
              \* left under the key, per request

\* the steps that call Better Auth or Weaviate themselves
VARIABLES
  users,      \* emails registered in Better Auth
  apiKeys,    \* API keys that exist in Better Auth
  weaviate,   \* the 'Books' collection: whether it exists, objects inserted
  fpc,        \* where each of these steps stands
  freq,       \* the HTTP request of each of these handlers (its inputs)
  fqueue,     \* events emitted to a subscriber and not yet delivered
  emitted,    \* history: how often each topic has been emitted
  fresponse   \* the HTTP response of each of these handlers

flowVars == <<users, apiKeys, weaviate, fpc, freq, fqueue, emitted, fresponse>>

callerVars == <<req, cpc, elapsed, sinceInit, emitCalls, result, response>>
workerVars == <<wpc, wval, wwrites, wtimes, audit, redelivered>>
vars == <<store, queue, callerVars, evictions, pendingWritten, workerVars, flowVars>>
bridgeVars == <<store, queue, callerVars, evictions, pendingWritten, workerVars>>

Key(i) == <<CallerGroup(req[i].op), req[i].requestId>>

\* the data of the work event: the requestId (RagQuery calls it stateKey)
\* next to the fields of the operation; no handler puts the group in it
WorkEvent(op, requestId) ==
  IF op = "RagQuery"
    THEN [topic |-> RequestTopic(op), stateKey |-> requestId]
    ELSE [topic |-> RequestTopic(op), requestId |-> requestId]

InitBridge ==
  /\ store = [k \in Groups \X Requests |-> Absent]
  /\ queue = {}
  /\ req = [i \in Requests |-> NoRequest]
  /\ cpc = [i \in Requests |-> "idle"]
  /\ elapsed = [i \in Requests |-> 0]
  /\ sinceInit = [i \in Requests |-> 0]
  /\ emitCalls = [i \in Requests |-> 0]
  /\ result = [i \in Requests |-> NoResult]
  /\ response = [i \in Requests |-> NoResponse]
  /\ evictions = 0
  /\ pendingWritten = [i \in Requests |-> FALSE]
  /\ wpc = [i \in Requests |-> "idle"]
  /\ wval = [i \in Requests |-> Undefined]
  /\ wwrites = [i \in Requests |-> <<>>]
  /\ wtimes = [i \in Requests |-> <<>>]
  /\ audit = {}
  /\ redelivered = [i \in Requests |-> <<>>]

EMAIL == "new@example.com"
EXISTING_KEY == "key_1"

ApiHandlers == {"UserRegistration", "CreateApiKey", "DeleteApiKey", "RagProcessPdfs"}
EventSteps ==
  {"ProcessRegistration", "LogRegistrationCompleted", "SendWelcomeEmail",
   "ProcessCreateApiKey", "ProcessDeleteApiKey",
   "ReadPdfs", "InitWeaviate", "ProcessPdfs", "LoadWeaviate"}

FlowTopics ==
  {"user.registration.process", "user.registration.completed",
   "user.registration.failed", "user.welcome-email.process", "user.welcome-email.sent",
   "api-key.creation.process", "api-key.creation.completed", "api-key.creation.failed",
   "api-key.deletion.process", "api-key.deletion.completed", "api-key.deletion.failed",
   "rag.read.pdfs", "rag.process.pdfs", "rag.chunks.ready", "rag.chunks.loaded"}

\* the event steps of the model that subscribe to a topic (`subscribes`)
Subscribers(topic) ==
  CASE topic = "user.registration.process" -> {"ProcessRegistration"}
    [] topic = "user.registration.completed" -> {"LogRegistrationCompleted"}
    [] topic = "user.welcome-email.process" -> {"SendWelcomeEmail"}
    [] topic = "api-key.creation.process" -> {"ProcessCreateApiKey"}
    [] topic = "api-key.deletion.process" -> {"ProcessDeleteApiKey"}
    [] topic = "rag.read.pdfs" -> {"ReadPdfs", "InitWeaviate"}
    [] topic = "rag.process.pdfs" -> {"ProcessPdfs"}
    [] topic = "rag.chunks.ready" -> {"LoadWeaviate"}
    [] OTHER -> {}

NoFlowRequest == [none |-> TRUE]

\* no request of these handlers has arrived
InitSteps ==
  /\ fpc = [step \in ApiHandlers \cup EventSteps |-> "idle"]
  /\ freq = [h \in ApiHandlers |-> NoFlowRequest]
  /\ fqueue = {}
  /\ emitted = [topic \in FlowTopics |-> 0]
  /\ fresponse = [h \in ApiHandlers |-> NoResponse]

\* the vector store a PDF ingestion request can meet
InitIngestion ==
  /\ InitBridge
  /\ InitSteps
  /\ users = {}
  /\ apiKeys = {EXISTING_KEY}
  /\ weaviate \in {[exists |-> e, objects |-> 0] : e \in BOOLEAN}

\* a fresh deployment: nobody registered, one API key, no collection
Init ==
  /\ InitBridge
  /\ InitSteps
  /\ users = {}
  /\ apiKeys = {EXISTING_KEY}
  /\ weaviate = [exists |-> FALSE, objects |-> 0]

\* the Better Auth database a registration or API key request can meet
InitAuthFlows ==
  /\ InitBridge
  /\ InitSteps
  /\ users \in SUBSET {EMAIL}
  /\ apiKeys \in SUBSET {EXISTING_KEY}
  /\ weaviate = [exists |-> FALSE, objects |-> 0]

\* a handler that stores its response and goes on polling
RespondAndKeepPolling(i, r) ==
  /\ response' = [response EXCEPT ![i] = r]
  /\ UNCHANGED cpc

\* return: the handler's response is final and the invocation is over
Respond(i, r) ==
  /\ response' = [response EXCEPT ![i] = r]
  /\ cpc' = [cpc EXCEPT ![i] = "done"]

\* a request arrives: middleware chain, then the handler up to its first
\* await.  Request ids are fresh, so the slots are used in order.
Receive(i) ==
  /\ cpc[i] = "idle"
  /\ \A j \in Requests : j < i => cpc[j] # "idle"
  /\ \E op \in Operations, bodyValid \in BOOLEAN, session \in BOOLEAN,
        groqKey \in BOOLEAN, preCheckOk \in BOOLEAN :
     \E role \in Roles(op) :
       LET r == [op |-> op, bodyValid |-> bodyValid, session |-> session,
                 role |-> role, groqKey |-> groqKey, preCheckOk |-> preCheckOk,
                 requestId |-> generateRequestId(i)]
           pro == HandlerPrologue(op, bodyValid, groqKey, preCheckOk)
       IN /\ op # "RagQuery" => groqKey
          /\ op = "RagQuery" => session
          /\ ~HasBody(op) => bodyValid
          /\ ~HasPreCheck(op) => preCheckOk
          /\ req' = [req EXCEPT ![i] = r]
          /\ IF ~HandlerInvoked(op, session, role)
               THEN Respond(i, ThroughMiddleware(op, session, role, Thrown("not invoked")))
               ELSE IF pro = Thrown("continue")
                 THEN /\ cpc' = [cpc EXCEPT ![i] = BridgeStepAfter("start")]
                      /\ UNCHANGED response
                 ELSE Respond(i, ThroughMiddleware(op, session, role, pro))
  /\ UNCHANGED <<pendingWritten, store, queue, elapsed, sinceInit, emitCalls, result, evictions, flowVars, workerVars>>

\* await initRequest(state, group, requestId, {})
CallerInit(i) ==
  /\ cpc[i] = "init"
  /\ \E ok \in BOOLEAN :
       IF ok
         THEN /\ store' = [store EXCEPT ![Key(i)] = initRequestRecord(EmptyData)]
              /\ pendingWritten' = [pendingWritten EXCEPT ![i] = TRUE]
              /\ cpc' = [cpc EXCEPT ![i] = BridgeStepAfter("init")]
              /\ UNCHANGED <<response, result>>
         ELSE /\ result' = [result EXCEPT ![i] = [status |-> "thrown", error |-> "StoreUnavailable"]]
              /\ Respond(i, ThroughMiddleware(req[i].op, req[i].session, req[i].role,
                              Returned(CatchResponse(req[i].op, "StoreUnavailable"))))
              /\ UNCHANGED <<store, pendingWritten>>
  /\ UNCHANGED <<queue, req, elapsed, sinceInit, emitCalls, evictions, flowVars, workerVars>>

\* an emit that has queued the event when it throws
CallerEmitThrowsAfterPublish(i) ==
  /\ cpc[i] = "emit"
  /\ emitCalls' = [emitCalls EXCEPT ![i] = @ + 1]
  /\ UNCHANGED sinceInit
  /\ queue' = queue \cup {WorkEvent(req[i].op, req[i].requestId)}
  /\ \E ok \in BOOLEAN :
       IF ok
         THEN /\ cpc' = [cpc EXCEPT ![i] = BridgeStepAfter("emit")]
              /\ UNCHANGED <<response, result>>
         ELSE /\ result' = [result EXCEPT ![i] = [status |-> "thrown", error |-> "emit failed"]]
              /\ Respond(i, ThroughMiddleware(req[i].op, req[i].session, req[i].role,
                              Returned(CatchResponse(req[i].op, "emit failed"))))
  /\ UNCHANGED <<pendingWritten, store, req, elapsed, evictions, flowVars, workerVars>>

\* await emit({topic, data: {requestId, ...}}), returning or throwing
\* before the clock advances
CallerEmit(i) ==
  /\ cpc[i] = "emit"
  /\ emitCalls' = [emitCalls EXCEPT ![i] = @ + 1]
  /\ UNCHANGED sinceInit
  /\ \E ok \in BOOLEAN :
       IF ok
         THEN /\ queue' = queue \cup {WorkEvent(req[i].op, req[i].requestId)}
              /\ cpc' = [cpc EXCEPT ![i] = BridgeStepAfter("emit")]
              /\ UNCHANGED <<response, result>>
         ELSE /\ result' = [result EXCEPT ![i] = [status |-> "thrown", error |-> "emit failed"]]
              /\ Respond(i, ThroughMiddleware(req[i].op, req[i].session, req[i].role,
                              Returned(CatchResponse(req[i].op, "emit failed"))))
              /\ UNCHANGED queue
  /\ UNCHANGED <<pendingWritten, store, req, elapsed, evictions, flowVars, workerVars>>

\* the same await when publishing takes longer than one poll interval
CallerEmitSlow(i) ==
  /\ cpc[i] = "emit"
  /\ emitCalls' = [emitCalls EXCEPT ![i] = @ + 1]
  /\ \E d \in (POLL_INTERVAL_MS + 1)..MaxEmitDelay :
       sinceInit' = [sinceInit EXCEPT ![i] = @ + d]
  /\ queue' = queue \cup {WorkEvent(req[i].op, req[i].requestId)}
  /\ cpc' = [cpc EXCEPT ![i] = BridgeStepAfter("emit")]
  /\ UNCHANGED <<pendingWritten, store, req, elapsed, result, response, evictions, flowVars, workerVars>>

\* the budget handler op waits with: the default, or RagQuery's literal
TimeoutOf(op) == IF op = "RagQuery" THEN RagTimeoutMs ELSE STATE_TIMEOUT_MS

WaitOutcome(op, got, el, timeoutMs) ==
  IF op = "RagQuery" THEN ragWaitForRequestResult(got, el, timeoutMs)
  ELSE waitForRequestResult(got, el, timeoutMs)

MapToResponse(op, value) ==
  IF op = "RagQuery" THEN RagMapResult(value) ELSE MapResult(value)

\* a poll loop that stores the timeout failure it synthesizes
CallerPollStoringTimeout(i) ==
  /\ cpc[i] = "poll"
  /\ LET op == req[i].op
         out == WaitOutcome(op, store[Key(i)], elapsed[i], TimeoutOf(req[i].op))
     IN \/ /\ out.kind = "return"
           /\ result' = [result EXCEPT ![i] = out.value]
           /\ Respond(i, ThroughMiddleware(op, req[i].session, req[i].role,
                           Returned(MapToResponse(op, out.value))))
           /\ store' = [store EXCEPT ![Key(i)] = out.value]
           /\ UNCHANGED <<elapsed, sinceInit>>
        \/ /\ out.kind = "throw"
           /\ result' = [result EXCEPT ![i] = [status |-> "thrown", error |-> out.error]]
           /\ Respond(i, ThroughMiddleware(op, req[i].session, req[i].role,
                           Returned(CatchResponse(op, out.error))))
           /\ UNCHANGED <<elapsed, sinceInit, store>>
        \/ /\ out.kind = "sleep"
           /\ elapsed' = [elapsed EXCEPT ![i] = @ + out.delay]
           /\ sinceInit' = [sinceInit EXCEPT ![i] = @ + out.delay]
           /\ UNCHANGED <<cpc, result, response, store>>
        \/ /\ elapsed[i] < TimeoutOf(req[i].op)
           /\ result' = [result EXCEPT ![i] = [status |-> "thrown", error |-> "StoreUnavailable"]]
           /\ Respond(i, ThroughMiddleware(op, req[i].session, req[i].role,
                           Returned(CatchResponse(op, "StoreUnavailable"))))
           /\ UNCHANGED <<elapsed, sinceInit, store>>
  /\ UNCHANGED <<pendingWritten, queue, req, emitCalls, evictions, flowVars, workerVars>>

\* one iteration of the poll loop (loop test, state.get, sleep), and what
\* the handler does when the loop ends
CallerPoll(i) ==
  /\ cpc[i] = "poll"
  /\ LET op == req[i].op
         out == WaitOutcome(op, store[Key(i)], elapsed[i], TimeoutOf(req[i].op))
     IN \/ /\ out.kind = "return"
           /\ result' = [result EXCEPT ![i] = out.value]
           /\ Respond(i, ThroughMiddleware(op, req[i].session, req[i].role,
                           Returned(MapToResponse(op, out.value))))
           /\ UNCHANGED <<elapsed, sinceInit>>
        \/ /\ out.kind = "throw"
           /\ result' = [result EXCEPT ![i] = [status |-> "thrown", error |-> out.error]]
           /\ Respond(i, ThroughMiddleware(op, req[i].session, req[i].role,
                           Returned(CatchResponse(op, out.error))))
           /\ UNCHANGED <<elapsed, sinceInit>>
        \/ /\ out.kind = "sleep"
           /\ elapsed' = [elapsed EXCEPT ![i] = @ + out.delay]
           /\ sinceInit' = [sinceInit EXCEPT ![i] = @ + out.delay]
           /\ UNCHANGED <<cpc, result, response>>
        \/ \* state.get throws
           /\ elapsed[i] < TimeoutOf(req[i].op)
           /\ result' = [result EXCEPT ![i] = [status |-> "thrown", error |-> "StoreUnavailable"]]
           /\ Respond(i, ThroughMiddleware(op, req[i].session, req[i].role,
                           Returned(CatchResponse(op, "StoreUnavailable"))))
           /\ UNCHANGED <<elapsed, sinceInit>>
  /\ UNCHANGED <<pendingWritten, store, queue, req, emitCalls, evictions, flowVars, workerVars>>

\* ------------------------------------------------------------ the workers
\* what the Better Auth call of a worker can throw (err.message)
AuthErrors(topic) ==
  CASE topic = "organization.update.requested" ->
         {"Organization not found", "Organization slug already exists", ""}
    [] topic = "organization.delete.requested" ->
         {"Organization not found", ""}
    [] topic = "organization.leave.requested" ->
         {"You cannot leave as the only owner", "Member not found"}
    [] topic = "organization.member.add.requested" ->
         {"User not found", "Member already exists"}
    [] topic = "organization.member.remove.requested" ->
         {"Member not found", "Cannot remove the last owner"}
    [] topic = "organization.member.roleUpdate.requested" ->
         {"Member not found", "Cannot change the role of the owner"}
    [] topic = "organization.invitation.create.requested" ->
         {"User is already invited to this organization"}
    [] topic = "organization.invitation.cancel.requested" ->
         {"Invitation not found", "Invitation already accepted"}
    [] topic = "admin.user.delete.requested" ->
         {"User not found"}
    [] topic = "admin.user.ban.requested" ->
         {"User not found", "You cannot ban yourself"}
    [] topic = "admin.user.setRole.requested" ->
         {"User not found", "You cannot change your own role", ""}

\* what the Better Auth call of a worker can return; removeUser's result is
\* not used by its worker
AuthResults(topic) ==
  IF topic = "organization.update.requested" THEN Payloads
  ELSE IF topic \in {"organization.member.add.requested",
                     "organization.member.roleUpdate.requested",
                     "organization.invitation.create.requested",
                     "admin.user.ban.requested", "admin.user.setRole.requested"}
    THEN {[value |-> "a"]}
    ELSE {Undefined}

\* errorMessage.toLowerCase().includes(word), over the messages that occur
Includes(message, word) ==
  <<message, word>> \in
    {<<"Cannot change the role of the owner", "cannot">>,
     <<"Cannot change the role of the owner", "own">>,
     <<"Cannot change the role of the owner", "owner">>,
     <<"Cannot remove the last owner", "cannot">>,
     <<"Cannot remove the last owner", "last">>,
     <<"Cannot remove the last owner", "last owner">>,
     <<"Cannot remove the last owner", "own">>,
     <<"Cannot remove the last owner", "owner">>,
     <<"Invitation already accepted", "accepted">>,
     <<"Invitation already accepted", "already">>,
     <<"Invitation not found", "not found">>,
     <<"Member already exists", "already">>,
     <<"Member already exists", "exists">>,
     <<"Member not found", "not found">>,
     <<"Organization not found", "not found">>,
     <<"Organization slug already exists", "already">>,
     <<"Organization slug already exists", "exists">>,
     <<"Organization slug already exists", "slug">>,
     <<"Unknown error", "own">>,
     <<"User is already invited to this organization", "already">>,
     <<"User already exists", "exists">>,
     <<"API Key not found", "not found">>,
     <<"User not found", "not found">>,
     <<"You cannot ban yourself", "cannot">>,
     <<"You cannot ban yourself", "yourself">>,
     <<"You cannot change your own role", "cannot">>,
     <<"You cannot change your own role", "own">>,
     <<"You cannot leave as the only owner", "cannot">>,
     <<"You cannot leave as the only owner", "own">>,
     <<"You cannot leave as the only owner", "owner">>}

\* const errorMessage = err.message || 'Unknown error'
ErrorMessage(message) == IF message = "" THEN "Unknown error" ELSE message

\* a worker whose literal is the group of another subsystem
WorkerGroupOfOtherSubsystem(topic) ==
  CASE topic = "organization.update.requested" -> "admin-requests"
    [] topic = "organization.delete.requested" -> "admin-requests"
    [] topic = "organization.leave.requested" -> "admin-requests"
    [] topic = "organization.member.add.requested" -> "admin-requests"
    [] topic = "organization.member.remove.requested" -> "admin-requests"
    [] topic = "organization.member.roleUpdate.requested" -> "admin-requests"
    [] topic = "organization.invitation.create.requested" -> "admin-requests"
    [] topic = "organization.invitation.cancel.requested" -> "admin-requests"
    [] topic = "admin.user.delete.requested" -> "org-requests"
    [] topic = "admin.user.ban.requested" -> "org-requests"
    [] topic = "admin.user.setRole.requested" -> "org-requests"
    [] topic = "rag.query.requested" -> "rag-workflow"

\* the group a worker writes to is a literal of the worker
WorkerGroup(topic) ==
  CASE topic = "organization.update.requested" -> "org-requests"
    [] topic = "organization.delete.requested" -> "org-requests"
    [] topic = "organization.leave.requested" -> "org-requests"
    [] topic = "organization.member.add.requested" -> "org-requests"
    [] topic = "organization.member.remove.requested" -> "org-requests"
    [] topic = "organization.member.roleUpdate.requested" -> "org-requests"
    [] topic = "organization.invitation.create.requested" -> "org-requests"
    [] topic = "organization.invitation.cancel.requested" -> "org-requests"
    [] topic = "admin.user.delete.requested" -> "admin-requests"
    [] topic = "admin.user.ban.requested" -> "admin-requests"
    [] topic = "admin.user.setRole.requested" -> "admin-requests"
    [] topic = "rag.query.requested" -> "rag-workflow"

\* the statusCode a worker stores with a failure
WorkerStatusCode(topic, errorMessage) ==
  IF topic = "organization.update.requested"
    THEN IF Includes(errorMessage, "not found") \/ Includes(errorMessage, "does not exist")
           THEN 404
           ELSE IF Includes(errorMessage, "slug") \/ Includes(errorMessage, "exists")
                   \/ Includes(errorMessage, "duplicate")
             THEN 409
             ELSE 400
  ELSE IF topic \in {"organization.leave.requested",
                     "organization.invitation.create.requested",
                     "admin.user.delete.requested"}
    THEN 400
    ELSE IF Includes(errorMessage, "not found") \/ Includes(errorMessage, "does not exist")
      THEN 404
      ELSE 400

\* the two rewriting branches of a catch block: the message stored for a
\* 'not found' error, and the words and the message of the else-if branch
NotFoundMessage(topic) ==
  CASE topic = "organization.member.add.requested" -> "Organization or user not found"
    [] topic = "organization.member.remove.requested" -> "Member not found"
    [] topic = "organization.member.roleUpdate.requested" -> "Member not found"
    [] topic = "organization.invitation.cancel.requested" -> "Invitation not found"
    [] topic = "admin.user.ban.requested" -> "User not found"
    [] topic = "admin.user.setRole.requested" -> "User not found"

OtherWords(topic) ==
  CASE topic = "organization.member.add.requested" -> {"already", "exists"}
    [] topic = "organization.member.remove.requested" -> {"owner", "last"}
    [] topic = "organization.member.roleUpdate.requested" -> {"owner", "last owner"}
    [] topic = "organization.invitation.cancel.requested" -> {"already", "accepted", "rejected"}
    [] topic = "admin.user.ban.requested" -> {"yourself"}
    [] topic = "admin.user.setRole.requested" -> {"yourself", "own"}

OtherMessage(topic) ==
  CASE topic = "organization.member.add.requested" ->
         "User is already a member of this organization"
    [] topic = "organization.member.remove.requested" ->
         "Cannot remove the owner or last member"
    [] topic = "organization.member.roleUpdate.requested" ->
         "Cannot change the owner role or there must be at least one owner"
    [] topic = "organization.invitation.cancel.requested" ->
         "Invitation is no longer pending"
    [] topic = "admin.user.ban.requested" -> "Cannot ban yourself"
    [] topic = "admin.user.setRole.requested" -> "Cannot change your own role"

\* the error a worker stores with a failure (userMessage)
WorkerUserMessage(topic, errorMessage) ==
  IF topic \in {"organization.update.requested", "organization.delete.requested",
                "organization.invitation.create.requested",
                "admin.user.delete.requested"}
    THEN errorMessage
  ELSE IF topic = "organization.leave.requested"
    THEN IF Includes(errorMessage, "owner") \/ Includes(errorMessage, "cannot")
           THEN "Cannot leave organization as owner. Transfer ownership first."
           ELSE IF Includes(errorMessage, "not found")
                   \/ Includes(errorMessage, "does not exist")
                   \/ Includes(errorMessage, "not a member")
             THEN "You are not a member of this organization"
             ELSE errorMessage
    ELSE IF Includes(errorMessage, "not found") \/ Includes(errorMessage, "does not exist")
      THEN NotFoundMessage(topic)
      ELSE IF \E word \in OtherWords(topic) : Includes(errorMessage, word)
        THEN OtherMessage(topic)
        ELSE errorMessage

\* the data a worker stores with a success
WorkerData(topic, orgData) ==
  CASE topic = "organization.update.requested" -> [organization |-> orgData]
    [] topic = "organization.member.add.requested" -> [member |-> orgData]
    [] topic = "organization.member.roleUpdate.requested" -> [member |-> orgData]
    [] topic = "organization.invitation.create.requested" -> [invitation |-> orgData]
    [] topic = "admin.user.ban.requested" -> [user |-> orgData]
    [] topic = "admin.user.setRole.requested" -> [user |-> orgData]
    [] topic = "organization.delete.requested" ->
         [success |-> TRUE, message |-> "Organization deleted successfully"]
    [] topic = "organization.leave.requested" ->
         [success |-> TRUE, message |-> "Left organization successfully"]
    [] topic = "organization.member.remove.requested" ->
         [success |-> TRUE, message |-> "Member removed successfully"]
    [] topic = "organization.invitation.cancel.requested" ->
         [success |-> TRUE, message |-> "Invitation canceled successfully"]
    [] topic = "admin.user.delete.requested" ->
         [success |-> TRUE, message |-> "User deleted successfully"]

SuccessTopic(topic) ==
  CASE topic = "organization.update.requested" -> "organization.updated"
    [] topic = "organization.delete.requested" -> "organization.deleted"
    [] topic = "organization.leave.requested" -> "organization.member.left"
    [] topic = "organization.member.add.requested" -> "organization.member.added"
    [] topic = "organization.member.remove.requested" -> "organization.member.removed"
    [] topic = "organization.member.roleUpdate.requested" -> "organization.member.roleUpdated"
    [] topic = "organization.invitation.create.requested" -> "organization.invitation.created"
    [] topic = "organization.invitation.cancel.requested" -> "organization.invitation.canceled"
    [] topic = "admin.user.delete.requested" -> "admin.user.deleted"
    [] topic = "admin.user.ban.requested" -> "admin.user.banned"
    [] topic = "admin.user.setRole.requested" -> "admin.user.roleChanged"

FailedTopic(topic) ==
  CASE topic = "organization.update.requested" -> "organization.update.failed"
    [] topic = "organization.delete.requested" -> "organization.delete.failed"
    [] topic = "organization.leave.requested" -> "organization.leave.failed"
    [] topic = "organization.member.add.requested" -> "organization.member.add.failed"
    [] topic = "organization.member.remove.requested" -> "organization.member.remove.failed"
    [] topic = "organization.member.roleUpdate.requested" -> "organization.member.roleUpdate.failed"
    [] topic = "organization.invitation.create.requested" -> "organization.invitation.create.failed"
    [] topic = "organization.invitation.cancel.requested" -> "organization.invitation.cancel.failed"
    [] topic = "admin.user.delete.requested" -> "admin.user.delete.failed"
    [] topic = "admin.user.ban.requested" -> "admin.user.ban.failed"
    [] topic = "admin.user.setRole.requested" -> "admin.user.setRole.failed"

BridgeTopics == {RequestTopic(op) : op \in OrganizationOperations \cup AdminOperations}

\* control reaches the catch block of the worker with err.message = message
WorkerCatch(i, message) ==
  /\ wpc' = [wpc EXCEPT ![i] = "setFailed"]
  /\ wval' = [wval EXCEPT ![i] = [topic |-> wval[i].topic, requestId |-> wval[i].requestId,
                                  called |-> wval[i].called,
                                  error |-> ErrorMessage(message)]]

\* the event is delivered and the worker awaits the Better Auth call
WorkerCall(i) ==
  /\ wpc[i] = "idle"
  /\ \E ev \in queue :
       /\ ev.topic \in BridgeTopics
       /\ ev.requestId = i
       /\ queue' = queue \ {ev}
       /\ \/ \E orgData \in AuthResults(ev.topic) :
               /\ wpc' = [wpc EXCEPT ![i] = "setCompleted"]
               /\ wval' = [wval EXCEPT ![i] = [topic |-> ev.topic, requestId |-> ev.requestId,
                                               called |-> TRUE, orgData |-> orgData]]
          \/ \E message \in AuthErrors(ev.topic) :
               /\ wpc' = [wpc EXCEPT ![i] = "setFailed"]
               /\ wval' = [wval EXCEPT ![i] = [topic |-> ev.topic, requestId |-> ev.requestId,
                                               called |-> FALSE,
                                               error |-> ErrorMessage(message)]]
  /\ UNCHANGED <<pendingWritten, store, callerVars, evictions, flowVars, wwrites, wtimes, audit, redelivered>>

\* await state.set(group, requestId, {status:'completed', data})
WorkerSetCompleted(i) ==
  /\ wpc[i] = "setCompleted"
  /\ LET topic == wval[i].topic
         record == Completed(WorkerData(topic, wval[i].orgData))
     IN \/ /\ store' = [store EXCEPT ![<<WorkerGroup(topic), wval[i].requestId>>] = record]
           /\ wwrites' = [wwrites EXCEPT ![i] = Append(@, record)]
           /\ wtimes' = [wtimes EXCEPT ![i] = Append(@, elapsed[i])]
           /\ wpc' = [wpc EXCEPT ![i] = "emitSuccess"]
           /\ UNCHANGED wval
        \/ /\ WorkerCatch(i, "StoreUnavailable")
           /\ UNCHANGED <<store, wwrites, wtimes>>
  /\ UNCHANGED <<pendingWritten, queue, callerVars, evictions, flowVars, audit, redelivered>>

\* await emit of the success audit event, still inside the try block
WorkerEmitSuccess(i) ==
  /\ wpc[i] = "emitSuccess"
  /\ \/ /\ audit' = audit \cup {[topic |-> SuccessTopic(wval[i].topic), requestId |-> i]}
        /\ wpc' = [wpc EXCEPT ![i] = "done"]
        /\ UNCHANGED wval
     \/ /\ WorkerCatch(i, "emit failed")
        /\ UNCHANGED audit
  /\ UNCHANGED <<pendingWritten, store, queue, callerVars, evictions, flowVars, wwrites, wtimes, redelivered>>

\* catch block: await state.set(group, requestId, {status:'failed', ...})
WorkerSetFailed(i) ==
  /\ wpc[i] = "setFailed"
  /\ LET topic == wval[i].topic
         record == Failed(WorkerUserMessage(topic, wval[i].error),
                          WorkerStatusCode(topic, wval[i].error))
     IN \/ /\ store' = [store EXCEPT ![<<WorkerGroup(topic), wval[i].requestId>>] = record]
           /\ wwrites' = [wwrites EXCEPT ![i] = Append(@, record)]
           /\ wtimes' = [wtimes EXCEPT ![i] = Append(@, elapsed[i])]
           /\ wpc' = [wpc EXCEPT ![i] = "emitFailed"]
        \/ /\ wpc' = [wpc EXCEPT ![i] = "crashed"]
           /\ UNCHANGED <<store, wwrites, wtimes>>
  /\ UNCHANGED <<pendingWritten, queue, callerVars, evictions, flowVars, wval, audit, redelivered>>

\* catch block: await emit of the failure audit event
WorkerEmitFailed(i) ==
  /\ wpc[i] = "emitFailed"
  /\ \/ /\ audit' = audit \cup {[topic |-> FailedTopic(wval[i].topic), requestId |-> i]}
        /\ wpc' = [wpc EXCEPT ![i] = "done"]
     \/ /\ wpc' = [wpc EXCEPT ![i] = "crashed"]
        /\ UNCHANGED audit
  /\ UNCHANGED <<pendingWritten, store, queue, callerVars, evictions, flowVars, wval, wwrites, wtimes, redelivered>>

\* the terminal records the query worker may write
RagWorkerRecords ==
  {Completed(d) : d \in Payloads}
    \cup {Failed("Query failed", 500), FailedNoCode("Query failed")}

\* the worker of rag.query.requested: one terminal write under stateKey
RagWorker(i) ==
  /\ wpc[i] = "idle"
  /\ \E ev \in queue, record \in RagWorkerRecords :
       /\ ev.topic = "rag.query.requested"
       /\ ev.stateKey = i
       /\ queue' = queue \ {ev}
       /\ store' = [store EXCEPT ![<<WorkerGroup(ev.topic), ev.stateKey>>] = record]
       /\ wwrites' = [wwrites EXCEPT ![i] = Append(@, record)]
       /\ wtimes' = [wtimes EXCEPT ![i] = Append(@, elapsed[i])]
       /\ wpc' = [wpc EXCEPT ![i] = "done"]
       /\ wval' = [wval EXCEPT ![i] = [topic |-> ev.topic, requestId |-> ev.stateKey,
                                       called |-> record.status = "completed"]]
  /\ UNCHANGED <<pendingWritten, callerVars, evictions, flowVars, audit, redelivered>>

\* the store drops an entry (external eviction) while its caller is polling
Evict(k) ==
  /\ evictions < MaxEvictions
  /\ cpc[k[2]] = "poll"
  /\ store[k] # Absent
  /\ store' = [store EXCEPT ![k] = Absent]
  /\ evictions' = evictions + 1
  /\ UNCHANGED <<pendingWritten, queue, callerVars, workerVars, flowVars>>

Next ==
  \/ \E i \in 1..NumRequests : Receive(i)
  \/ \E i \in Requests : CallerInit(i)
  \/ \E i \in Requests : CallerEmit(i)
  \/ \E i \in Requests : CallerPoll(i)
  \/ \E i \in Requests : WorkerCall(i)
  \/ \E i \in Requests : WorkerSetCompleted(i)
  \/ \E i \in Requests : WorkerEmitSuccess(i)
  \/ \E i \in Requests : WorkerSetFailed(i)
  \/ \E i \in Requests : WorkerEmitFailed(i)
  \/ \E i \in Requests : RagWorker(i)
  \/ \E k \in Groups \X Requests : Evict(k)

Spec == Init /\ [][Next]_vars

\* the request that arrives first
FirstRequest == {i \in Requests : \A j \in Requests : i <= j}

\* one request followed from its arrival to its response, with the time since
\* its initRequest measured (the duration of its emit included)
NextExchange ==
  \/ \E i \in FirstRequest : Receive(i)
  \/ \E i \in FirstRequest : CallerInit(i)
  \/ \E i \in FirstRequest : CallerEmit(i)
  \/ \E i \in FirstRequest : CallerEmitSlow(i)
  \/ \E i \in FirstRequest : CallerPoll(i)
  \/ \E i \in FirstRequest : WorkerCall(i)
  \/ \E i \in FirstRequest : WorkerSetCompleted(i)
  \/ \E i \in FirstRequest : WorkerEmitSuccess(i)
  \/ \E i \in FirstRequest : WorkerSetFailed(i)
  \/ \E i \in FirstRequest : WorkerEmitFailed(i)
  \/ \E i \in FirstRequest : RagWorker(i)
  \/ \E k \in Groups \X FirstRequest : Evict(k)

SpecExchange == Init /\ [][NextExchange]_vars

\* the same exchange when every await of the worker settles: an invocation
\* that can take its next step eventually takes it
SpecExchangeFair ==
  /\ SpecExchange
  /\ \A i \in FirstRequest :
       /\ WF_vars(WorkerCall(i))
       /\ WF_vars(WorkerSetCompleted(i))
       /\ WF_vars(WorkerEmitSuccess(i))
       /\ WF_vars(WorkerSetFailed(i))
       /\ WF_vars(WorkerEmitFailed(i))

\* a request that passes the middleware and the handler's prologue and
\* starts an exchange in the group 'org-requests'
ReceiveExchange(i) ==
  /\ Receive(i)
  /\ req'[i].op = "UpdateOrganization"
  /\ req'[i].role = "owner"
  /\ cpc'[i] = BridgeStepAfter("start")

\* two concurrent exchanges in one group
NextPair ==
  \/ \E i \in ExchangePair : ReceiveExchange(i)
  \/ \E i \in ExchangePair : CallerInit(i)
  \/ \E i \in ExchangePair : CallerEmit(i)
  \/ \E i \in ExchangePair : CallerPoll(i)
  \/ \E i \in ExchangePair : WorkerCall(i)
  \/ \E i \in ExchangePair : WorkerSetCompleted(i)
  \/ \E i \in ExchangePair : WorkerEmitSuccess(i)
  \/ \E i \in ExchangePair : WorkerSetFailed(i)
  \/ \E i \in ExchangePair : WorkerEmitFailed(i)
  \/ \E k \in Groups \X ExchangePair : Evict(k)

SpecPair == Init /\ [][NextPair]_vars

\* ---------------------------------------------- at-least-once delivery
\* the queue delivers the work event of a request again after the worker
\* invocation of the earlier delivery has ended
Redeliver(i) ==
  /\ req[i] # NoRequest
  /\ wpc[i] \in {"done", "crashed"}
  /\ Len(redelivered[i]) < MaxRedeliveries
  /\ redelivered' = [redelivered EXCEPT ![i] = Append(@, store[Key(i)])]
  /\ queue' = queue \cup {WorkEvent(req[i].op, req[i].requestId)}
  /\ wpc' = [wpc EXCEPT ![i] = "idle"]
  /\ UNCHANGED <<pendingWritten, store, callerVars, evictions, flowVars, wval, wwrites, wtimes, audit>>

NextRedelivery ==
  \/ \E i \in FirstRequest : Receive(i)
  \/ \E i \in FirstRequest : CallerInit(i)
  \/ \E i \in FirstRequest : CallerEmit(i)
  \/ \E i \in FirstRequest : CallerPoll(i)
  \/ \E i \in FirstRequest : WorkerCall(i)
  \/ \E i \in FirstRequest : WorkerSetCompleted(i)
  \/ \E i \in FirstRequest : WorkerEmitSuccess(i)
  \/ \E i \in FirstRequest : WorkerSetFailed(i)
  \/ \E i \in FirstRequest : WorkerEmitFailed(i)
  \/ \E i \in FirstRequest : RagWorker(i)
  \/ \E i \in FirstRequest : Redeliver(i)

SpecRedelivery == Init /\ [][NextRedelivery]_vars

\* --------------------------------------- the poll loop, sleep by sleep
\* the time the loop sleeps after a state.get that found no terminal record
SleepDelay(op, el, timeoutMs) == WaitOutcome(op, Absent, el, timeoutMs).delay

\* the loop test and the state.get of one turn of the poll loop: a terminal
\* record or the end of the budget ends the wait, anything else starts the
\* sleep
CallerGet(i) ==
  /\ cpc[i] = "poll"
  /\ LET op == req[i].op
         out == WaitOutcome(op, store[Key(i)], elapsed[i], TimeoutOf(req[i].op))
     IN \/ /\ out.kind = "return"
           /\ result' = [result EXCEPT ![i] = out.value]
           /\ Respond(i, ThroughMiddleware(op, req[i].session, req[i].role,
                           Returned(MapToResponse(op, out.value))))
        \/ /\ out.kind = "throw"
           /\ result' = [result EXCEPT ![i] = [status |-> "thrown", error |-> out.error]]
           /\ Respond(i, ThroughMiddleware(op, req[i].session, req[i].role,
                           Returned(CatchResponse(op, out.error))))
        \/ /\ out.kind = "sleep"
           /\ cpc' = [cpc EXCEPT ![i] = "sleep"]
           /\ UNCHANGED <<result, response>>
        \/ \* state.get throws
           /\ elapsed[i] < TimeoutOf(req[i].op)
           /\ result' = [result EXCEPT ![i] = [status |-> "thrown", error |-> "StoreUnavailable"]]
           /\ Respond(i, ThroughMiddleware(op, req[i].session, req[i].role,
                           Returned(CatchResponse(op, "StoreUnavailable"))))
  /\ UNCHANGED <<elapsed, sinceInit>>
  /\ UNCHANGED <<pendingWritten, store, queue, req, emitCalls, evictions, flowVars, workerVars>>

\* the sleep of one turn ends: the workers run while the caller is in it
CallerSleep(i) ==
  /\ cpc[i] = "sleep"
  /\ LET delay == SleepDelay(req[i].op, elapsed[i], TimeoutOf(req[i].op))
     IN /\ elapsed' = [elapsed EXCEPT ![i] = @ + delay]
        /\ sinceInit' = [sinceInit EXCEPT ![i] = @ + delay]
  /\ cpc' = [cpc EXCEPT ![i] = "poll"]
  /\ UNCHANGED <<result, response>>
  /\ UNCHANGED <<pendingWritten, store, queue, req, emitCalls, evictions, flowVars, workerVars>>

NextTiming ==
  \/ \E i \in FirstRequest : Receive(i)
  \/ \E i \in FirstRequest : CallerInit(i)
  \/ \E i \in FirstRequest : CallerEmit(i)
  \/ \E i \in FirstRequest : CallerGet(i)
  \/ \E i \in FirstRequest : CallerSleep(i)
  \/ \E i \in FirstRequest : WorkerCall(i)
  \/ \E i \in FirstRequest : WorkerSetCompleted(i)
  \/ \E i \in FirstRequest : WorkerEmitSuccess(i)
  \/ \E i \in FirstRequest : WorkerSetFailed(i)
  \/ \E i \in FirstRequest : WorkerEmitFailed(i)
  \/ \E i \in FirstRequest : RagWorker(i)

SpecTiming == Init /\ [][NextTiming]_vars

\* ------------------------------------- emitting and delivering events
\* await emit({topic, data}): one copy of the event for each subscriber
Emit(topic) ==
  /\ emitted' = [emitted EXCEPT ![topic] = @ + 1]
  /\ fqueue' = fqueue \cup {[topic |-> topic, to |-> step, n |-> emitted[topic] + 1] :
                              step \in Subscribers(topic)}

FlowRespond(h, r) ==
  /\ fresponse' = [fresponse EXCEPT ![h] = r]
  /\ fpc' = [fpc EXCEPT ![h] = "done"]

\* the runtime hands an event to the step that subscribes to its topic
Deliver(step) ==
  /\ fpc[step] = "idle"
  /\ \E ev \in fqueue :
       /\ ev.to = step
       /\ fqueue' = fqueue \ {ev}
  /\ fpc' = [fpc EXCEPT ![step] = "run"]
  /\ UNCHANGED <<users, apiKeys, weaviate, freq, emitted, fresponse, bridgeVars>>

\* ------------------------------------------------------- registration
\* auth.api.signUpEmail for EMAIL: creates the user unless the email is
\* taken; a taken email comes back as a returned error or as a thrown
\* APIError
SignUpEmailOutcomes(registered) ==
  IF EMAIL \in registered
    THEN {[kind |-> "error", message |-> "User already exists"],
          [kind |-> "throw", message |-> "User already exists"]}
    ELSE {[kind |-> "created"]}

\* what the UserRegistration handler answers after signUpEmail
RegistrationResponse(outcome) ==
  CASE outcome.kind = "created" -> Response(201, [user |-> EMAIL])
    [] outcome.kind = "error" ->
         IF \/ Includes(outcome.message, "email")
            \/ Includes(outcome.message, "exists")
            \/ Includes(outcome.message, "duplicate")
           THEN Response(409, [error |-> "User with this email already exists"])
           ELSE Response(400, [error |-> "Registration failed"])
    [] outcome.kind = "throw" -> Response(500, [error |-> "Registration failed"])

\* POST /auth/register arrives; bodySchema.parse runs inside the try block,
\* so an invalid body ends in the catch block
UserRegistrationReceive ==
  /\ fpc["UserRegistration"] = "idle"
  /\ \E bodyValid \in BOOLEAN :
       /\ freq' = [freq EXCEPT !["UserRegistration"] =
                     [bodyValid |-> bodyValid, registered |-> EMAIL \in users]]
       /\ IF bodyValid
            THEN /\ fpc' = [fpc EXCEPT !["UserRegistration"] = "emit"]
                 /\ UNCHANGED fresponse
            ELSE FlowRespond("UserRegistration", Response(500, [error |-> "Registration failed"]))
  /\ UNCHANGED <<users, apiKeys, weaviate, fqueue, emitted, bridgeVars>>

\* await emit({topic: 'user.registration.process', ...})
UserRegistrationEmit ==
  /\ fpc["UserRegistration"] = "emit"
  /\ \/ /\ Emit("user.registration.process")
        /\ fpc' = [fpc EXCEPT !["UserRegistration"] = "signUp"]
        /\ UNCHANGED fresponse
     \/ /\ FlowRespond("UserRegistration", Response(500, [error |-> "Registration failed"]))
        /\ UNCHANGED <<fqueue, emitted>>
  /\ UNCHANGED <<users, apiKeys, weaviate, freq, bridgeVars>>

\* the handler's own await auth.api.signUpEmail and its response
UserRegistrationSignUp ==
  /\ fpc["UserRegistration"] = "signUp"
  /\ \E outcome \in SignUpEmailOutcomes(users) :
       /\ users' = IF outcome.kind = "created" THEN users \cup {EMAIL} ELSE users
       /\ FlowRespond("UserRegistration", RegistrationResponse(outcome))
  /\ UNCHANGED <<apiKeys, weaviate, freq, fqueue, emitted, bridgeVars>>

\* ProcessRegistration: the same signUpEmail in the background
ProcessRegistrationSignUp ==
  /\ fpc["ProcessRegistration"] = "run"
  /\ \E outcome \in SignUpEmailOutcomes(users) :
       /\ users' = IF outcome.kind = "created" THEN users \cup {EMAIL} ELSE users
       /\ fpc' = [fpc EXCEPT !["ProcessRegistration"] =
                    IF outcome.kind = "created" THEN "emitCompleted" ELSE "emitFailed"]
  /\ UNCHANGED <<apiKeys, weaviate, freq, fqueue, emitted, fresponse, bridgeVars>>

\* emit user.registration.completed inside the try block: when it throws,
\* the catch block emits user.registration.failed
ProcessRegistrationEmitCompleted ==
  /\ fpc["ProcessRegistration"] = "emitCompleted"
  /\ \/ /\ Emit("user.registration.completed")
        /\ fpc' = [fpc EXCEPT !["ProcessRegistration"] = "done"]
     \/ /\ fpc' = [fpc EXCEPT !["ProcessRegistration"] = "emitFailed"]
        /\ UNCHANGED <<fqueue, emitted>>
  /\ UNCHANGED <<users, apiKeys, weaviate, freq, fresponse, bridgeVars>>

ProcessRegistrationEmitFailed ==
  /\ fpc["ProcessRegistration"] = "emitFailed"
  /\ Emit("user.registration.failed")
  /\ fpc' = [fpc EXCEPT !["ProcessRegistration"] = "done"]
  /\ UNCHANGED <<users, apiKeys, weaviate, freq, fresponse, bridgeVars>>

\* LogRegistrationCompleted: state.set('registrations', userId, ...), then
\* emit user.welcome-email.process
LogRegistrationCompleted ==
  /\ fpc["LogRegistrationCompleted"] = "run"
  /\ Emit("user.welcome-email.process")
  /\ fpc' = [fpc EXCEPT !["LogRegistrationCompleted"] = "done"]
  /\ UNCHANGED <<users, apiKeys, weaviate, freq, fresponse, bridgeVars>>

\* SendWelcomeEmail: state.set('welcome-email', userId, ...), then emit
\* user.welcome-email.sent
SendWelcomeEmail ==
  /\ fpc["SendWelcomeEmail"] = "run"
  /\ Emit("user.welcome-email.sent")
  /\ fpc' = [fpc EXCEPT !["SendWelcomeEmail"] = "done"]
  /\ UNCHANGED <<users, apiKeys, weaviate, freq, fresponse, bridgeVars>>

\* ------------------------------------------------------------ API keys
\* auth.api.createApiKey: returns the new key, returns an error or throws
CreateApiKeyOutcomes == {"created", "error", "throw"}

\* POST /auth/api-keys arrives: authMiddleware, then bodySchema.parse inside
\* the try block of the handler
CreateApiKeyReceive ==
  /\ fpc["CreateApiKey"] = "idle"
  /\ \E session \in BOOLEAN, bodyValid \in BOOLEAN :
       /\ freq' = [freq EXCEPT !["CreateApiKey"] = [session |-> session, bodyValid |-> bodyValid]]
       /\ IF ~session
            THEN FlowRespond("CreateApiKey",
                   authMiddleware(session, Returned(Response(200, [next |-> TRUE]))).response)
            ELSE IF ~bodyValid
              THEN FlowRespond("CreateApiKey", Response(500, [error |-> "Failed to create API key"]))
              ELSE /\ fpc' = [fpc EXCEPT !["CreateApiKey"] = "emit"]
                   /\ UNCHANGED fresponse
  /\ UNCHANGED <<users, apiKeys, weaviate, fqueue, emitted, bridgeVars>>

\* await emit({topic: 'api-key.creation.process', ...})
CreateApiKeyEmit ==
  /\ fpc["CreateApiKey"] = "emit"
  /\ \/ /\ Emit("api-key.creation.process")
        /\ fpc' = [fpc EXCEPT !["CreateApiKey"] = "create"]
        /\ UNCHANGED fresponse
     \/ /\ FlowRespond("CreateApiKey", Response(500, [error |-> "Failed to create API key"]))
        /\ UNCHANGED <<fqueue, emitted>>
  /\ UNCHANGED <<users, apiKeys, weaviate, freq, bridgeVars>>

\* the handler's own await auth.api.createApiKey and its response
CreateApiKeyCreate ==
  /\ fpc["CreateApiKey"] = "create"
  /\ \E outcome \in CreateApiKeyOutcomes :
       IF outcome = "created"
         THEN /\ apiKeys' = apiKeys \cup {"key of CreateApiKey"}
              /\ FlowRespond("CreateApiKey", Response(201, [id |-> "key of CreateApiKey"]))
         ELSE /\ FlowRespond("CreateApiKey", Response(500, [error |-> "Failed to create API key"]))
              /\ UNCHANGED apiKeys
  /\ UNCHANGED <<users, weaviate, freq, fqueue, emitted, bridgeVars>>

\* ProcessCreateApiKey: the same createApiKey in the background, then the
\* outcome event
ProcessCreateApiKeyCreate ==
  /\ fpc["ProcessCreateApiKey"] = "run"
  /\ \E outcome \in CreateApiKeyOutcomes :
       IF outcome = "created"
         THEN /\ apiKeys' = apiKeys \cup {"key of ProcessCreateApiKey"}
              /\ fpc' = [fpc EXCEPT !["ProcessCreateApiKey"] = "emitCompleted"]
         ELSE /\ fpc' = [fpc EXCEPT !["ProcessCreateApiKey"] = "emitFailed"]
              /\ UNCHANGED apiKeys
  /\ UNCHANGED <<users, weaviate, freq, fqueue, emitted, fresponse, bridgeVars>>

ProcessCreateApiKeyEmit ==
  /\ fpc["ProcessCreateApiKey"] \in {"emitCompleted", "emitFailed"}
  /\ Emit(IF fpc["ProcessCreateApiKey"] = "emitCompleted"
            THEN "api-key.creation.completed" ELSE "api-key.creation.failed")
  /\ fpc' = [fpc EXCEPT !["ProcessCreateApiKey"] = "done"]
  /\ UNCHANGED <<users, apiKeys, weaviate, freq, fresponse, bridgeVars>>

\* auth.api.deleteApiKey for EXISTING_KEY: deletes the key when it exists; a
\* missing key comes back as a returned error or as a thrown APIError
DeleteApiKeyOutcomes(keys) ==
  IF EXISTING_KEY \in keys
    THEN {[kind |-> "deleted"]}
    ELSE {[kind |-> "error", message |-> "API Key not found"],
          [kind |-> "throw", message |-> "API Key not found"]}

\* what the DeleteApiKey handler answers after deleteApiKey
DeleteApiKeyResponse(outcome) ==
  CASE outcome.kind = "deleted" -> Response(200, [success |-> TRUE])
    [] outcome.kind = "error" ->
         IF Includes(outcome.message, "not found") \/ Includes(outcome.message, "does not exist")
           THEN Response(404, [error |-> "API key not found"])
           ELSE Response(500, [error |-> "Failed to delete API key"])
    [] outcome.kind = "throw" -> Response(500, [error |-> "Failed to delete API key"])

\* DELETE /auth/api-keys/:id arrives: authMiddleware, then listApiKeys and
\* the ownership test; `owner` says whether the key is the caller's
DeleteApiKeyReceive ==
  /\ fpc["DeleteApiKey"] = "idle"
  /\ \E session \in BOOLEAN, owner \in BOOLEAN, listed \in BOOLEAN :
       /\ freq' = [freq EXCEPT !["DeleteApiKey"] =
                     [session |-> session, owner |-> owner, listed |-> listed,
                      existed |-> EXISTING_KEY \in apiKeys]]
       /\ IF ~session
            THEN /\ FlowRespond("DeleteApiKey",
                      authMiddleware(session, Returned(Response(200, [next |-> TRUE]))).response)
                 /\ UNCHANGED <<fqueue, emitted>>
            ELSE IF ~listed
              THEN /\ Emit("api-key.deletion.failed")
                   /\ FlowRespond("DeleteApiKey",
                        Response(500, [error |-> "Failed to verify API key ownership"]))
              ELSE IF ~(owner /\ EXISTING_KEY \in apiKeys)
                THEN /\ Emit("api-key.deletion.failed")
                     /\ FlowRespond("DeleteApiKey",
                          Response(403, [error |-> "You do not have permission to delete this API key"]))
                ELSE /\ fpc' = [fpc EXCEPT !["DeleteApiKey"] = "emit"]
                     /\ UNCHANGED <<fresponse, fqueue, emitted>>
  /\ UNCHANGED <<users, apiKeys, weaviate, bridgeVars>>

\* await emit({topic: 'api-key.deletion.process', ...}); when it throws the
\* catch block emits api-key.deletion.failed and answers 500
DeleteApiKeyEmit ==
  /\ fpc["DeleteApiKey"] = "emit"
  /\ \/ /\ Emit("api-key.deletion.process")
        /\ fpc' = [fpc EXCEPT !["DeleteApiKey"] = "delete"]
        /\ UNCHANGED fresponse
     \/ /\ Emit("api-key.deletion.failed")
        /\ FlowRespond("DeleteApiKey", Response(500, [error |-> "Failed to delete API key"]))
  /\ UNCHANGED <<users, apiKeys, weaviate, freq, bridgeVars>>

\* the handler's own await auth.api.deleteApiKey, the outcome event and the
\* response
DeleteApiKeyDelete ==
  /\ fpc["DeleteApiKey"] = "delete"
  /\ \E outcome \in DeleteApiKeyOutcomes(apiKeys) :
       /\ apiKeys' = IF outcome.kind = "deleted" THEN apiKeys \ {EXISTING_KEY} ELSE apiKeys
       /\ Emit(IF outcome.kind = "deleted"
                 THEN "api-key.deletion.completed" ELSE "api-key.deletion.failed")
       /\ FlowRespond("DeleteApiKey", DeleteApiKeyResponse(outcome))
  /\ UNCHANGED <<users, weaviate, freq, bridgeVars>>

\* ProcessDeleteApiKey: the same deleteApiKey in the background, then the
\* outcome event
ProcessDeleteApiKeyDelete ==
  /\ fpc["ProcessDeleteApiKey"] = "run"
  /\ \E outcome \in DeleteApiKeyOutcomes(apiKeys) :
       /\ apiKeys' = IF outcome.kind = "deleted" THEN apiKeys \ {EXISTING_KEY} ELSE apiKeys
       /\ fpc' = [fpc EXCEPT !["ProcessDeleteApiKey"] =
                    IF outcome.kind = "deleted" THEN "emitCompleted" ELSE "emitFailed"]
  /\ UNCHANGED <<users, weaviate, freq, fqueue, emitted, fresponse, bridgeVars>>

ProcessDeleteApiKeyEmit ==
  /\ fpc["ProcessDeleteApiKey"] \in {"emitCompleted", "emitFailed"}
  /\ Emit(IF fpc["ProcessDeleteApiKey"] = "emitCompleted"
            THEN "api-key.deletion.completed" ELSE "api-key.deletion.failed")
  /\ fpc' = [fpc EXCEPT !["ProcessDeleteApiKey"] = "done"]
  /\ UNCHANGED <<users, apiKeys, weaviate, freq, fresponse, bridgeVars>>

AuthFlowSteps ==
  {"ProcessRegistration", "LogRegistrationCompleted", "SendWelcomeEmail",
   "ProcessCreateApiKey", "ProcessDeleteApiKey"}

NextAuthFlows ==
  \/ UserRegistrationReceive
  \/ UserRegistrationEmit
  \/ UserRegistrationSignUp
  \/ \E step \in AuthFlowSteps : Deliver(step)
  \/ ProcessRegistrationSignUp
  \/ ProcessRegistrationEmitCompleted
  \/ ProcessRegistrationEmitFailed
  \/ LogRegistrationCompleted
  \/ SendWelcomeEmail
  \/ CreateApiKeyReceive
  \/ CreateApiKeyEmit
  \/ CreateApiKeyCreate
  \/ ProcessCreateApiKeyCreate
  \/ ProcessCreateApiKeyEmit
  \/ DeleteApiKeyReceive
  \/ DeleteApiKeyEmit
  \/ DeleteApiKeyDelete
  \/ ProcessDeleteApiKeyDelete
  \/ ProcessDeleteApiKeyEmit

SpecAuthFlows == InitAuthFlows /\ [][NextAuthFlows]_vars

\* the same flows when every await settles and every event is delivered
SpecAuthFlowsFair ==
  /\ SpecAuthFlows
  /\ WF_vars(UserRegistrationSignUp)
  /\ \A step \in AuthFlowSteps : WF_vars(Deliver(step))
  /\ WF_vars(ProcessRegistrationSignUp)
  /\ WF_vars(ProcessRegistrationEmitCompleted)
  /\ WF_vars(ProcessRegistrationEmitFailed)
  /\ WF_vars(LogRegistrationCompleted)
  /\ WF_vars(SendWelcomeEmail)

\* ------------------------------------------------------- PDF ingestion
\* bound: the batches of 100 chunks LoadWeaviate inserts for the documents
MaxBatches == 2

\* POST /rag/process-pdfs arrives: bodySchema.parse runs before the try
\* block and the step has no middleware, so an invalid body throws out of
\* the handler
RagProcessPdfsReceive ==
  /\ fpc["RagProcessPdfs"] = "idle"
  /\ \E bodyValid \in BOOLEAN :
       /\ freq' = [freq EXCEPT !["RagProcessPdfs"] = [bodyValid |-> bodyValid]]
       /\ fpc' = [fpc EXCEPT !["RagProcessPdfs"] = IF bodyValid THEN "emit" ELSE "crashed"]
  /\ UNCHANGED <<users, apiKeys, weaviate, fqueue, emitted, fresponse, bridgeVars>>

\* await emit({topic: 'rag.read.pdfs', ...}), then 200; 500 when it throws
RagProcessPdfsEmit ==
  /\ fpc["RagProcessPdfs"] = "emit"
  /\ \/ /\ Emit("rag.read.pdfs")
        /\ FlowRespond("RagProcessPdfs", Response(200, [message |-> "PDF processing workflow started"]))
     \/ /\ FlowRespond("RagProcessPdfs", Response(500, [error |-> "Failed to start PDF processing"]))
        /\ UNCHANGED <<fqueue, emitted>>
  /\ UNCHANGED <<users, apiKeys, weaviate, freq, bridgeVars>>

\* ReadPdfs: readdir of the folder (it throws when the folder is missing),
\* then emit rag.process.pdfs
ReadPdfs ==
  /\ fpc["ReadPdfs"] = "run"
  /\ \/ /\ Emit("rag.process.pdfs")
        /\ fpc' = [fpc EXCEPT !["ReadPdfs"] = "done"]
     \/ /\ fpc' = [fpc EXCEPT !["ReadPdfs"] = "crashed"]
        /\ UNCHANGED <<fqueue, emitted>>
  /\ UNCHANGED <<users, apiKeys, weaviate, freq, fresponse, bridgeVars>>

\* parsing, chunking and embedding the files: the chunks are put under a
\* stateKey of group 'rag-workflow' and rag.chunks.ready is emitted
ProcessPdfs ==
  /\ fpc["ProcessPdfs"] = "run"
  /\ Emit("rag.chunks.ready")
  /\ fpc' = [fpc EXCEPT !["ProcessPdfs"] = "done"]
  /\ UNCHANGED <<users, apiKeys, weaviate, freq, fresponse, bridgeVars>>

\* InitWeaviate: the environment test and weaviate.connectTo
InitWeaviateConnect ==
  /\ fpc["InitWeaviate"] = "run"
  /\ \E ok \in BOOLEAN :
       fpc' = [fpc EXCEPT !["InitWeaviate"] = IF ok THEN "exists" ELSE "crashed"]
  /\ UNCHANGED <<users, apiKeys, weaviate, freq, fqueue, emitted, fresponse, bridgeVars>>

\* await collectionExists(client)
InitWeaviateExists ==
  /\ fpc["InitWeaviate"] = "exists"
  /\ fpc' = [fpc EXCEPT !["InitWeaviate"] = IF weaviate.exists THEN "done" ELSE "create"]
  /\ UNCHANGED <<users, apiKeys, weaviate, freq, fqueue, emitted, fresponse, bridgeVars>>

\* await createCollection(client): it throws when the collection has come
\* into being since the test
InitWeaviateCreate ==
  /\ fpc["InitWeaviate"] = "create"
  /\ IF weaviate.exists
       THEN /\ fpc' = [fpc EXCEPT !["InitWeaviate"] = "crashed"]
            /\ UNCHANGED weaviate
       ELSE /\ weaviate' = [weaviate EXCEPT !.exists = TRUE]
            /\ fpc' = [fpc EXCEPT !["InitWeaviate"] = "done"]
  /\ UNCHANGED <<users, apiKeys, freq, fqueue, emitted, fresponse, bridgeVars>>

\* LoadWeaviate: state.get of the chunks, the environment test and
\* weaviate.connectTo; client.collections.get('Books') makes no request
LoadWeaviateConnect ==
  /\ fpc["LoadWeaviate"] = "run"
  /\ \E ok \in BOOLEAN :
       fpc' = [fpc EXCEPT !["LoadWeaviate"] = IF ok THEN "insert" ELSE "crashed"]
  /\ UNCHANGED <<users, apiKeys, weaviate, freq, fqueue, emitted, fresponse, bridgeVars>>

\* await collection.data.insertMany(batch): into a collection that does
\* not exist the store either refuses the batch or creates the collection
\* with a schema of its own (auto-schema)
LoadWeaviateInsert ==
  /\ fpc["LoadWeaviate"] = "insert"
  /\ weaviate.objects < MaxBatches
  /\ \/ /\ weaviate.exists
        /\ weaviate' = [weaviate EXCEPT !.objects = @ + 1]
        /\ UNCHANGED fpc
     \/ /\ ~weaviate.exists
        /\ weaviate' = [exists |-> TRUE, objects |-> weaviate.objects + 1]
        /\ UNCHANGED fpc
     \/ /\ ~weaviate.exists
        /\ fpc' = [fpc EXCEPT !["LoadWeaviate"] = "crashed"]
        /\ UNCHANGED weaviate
  /\ UNCHANGED <<users, apiKeys, freq, fqueue, emitted, fresponse, bridgeVars>>

\* after the last batch: emit rag.chunks.loaded
LoadWeaviateEmit ==
  /\ fpc["LoadWeaviate"] = "insert"
  /\ weaviate.objects = MaxBatches
  /\ Emit("rag.chunks.loaded")
  /\ fpc' = [fpc EXCEPT !["LoadWeaviate"] = "done"]
  /\ UNCHANGED <<users, apiKeys, weaviate, freq, fresponse, bridgeVars>>

IngestionSteps == {"ReadPdfs", "InitWeaviate", "ProcessPdfs", "LoadWeaviate"}

NextIngestion ==
  \/ RagProcessPdfsReceive
  \/ RagProcessPdfsEmit
  \/ \E step \in IngestionSteps : Deliver(step)
  \/ ReadPdfs
  \/ ProcessPdfs
  \/ InitWeaviateConnect
  \/ InitWeaviateExists
  \/ InitWeaviateCreate
  \/ LoadWeaviateConnect
  \/ LoadWeaviateInsert
  \/ LoadWeaviateEmit

SpecIngestion == InitIngestion /\ [][NextIngestion]_vars

\* ------------------------------------------- the library called directly
\* values a caller of initRequest can pass as requestData
RequestDatas ==
  {EmptyData, [userId |-> "u1"], [status |-> "completed", data |-> [value |-> "a"]]}

\* records a key can hold before initRequest is called on it
PriorRecords ==
  {initRequestRecord(EmptyData), Completed([value |-> "a"]), Failed("User not found", 400)}

\* the key holds a record of an earlier use
LibraryPriorWrite(k) ==
  /\ req[k[2]] = NoRequest
  /\ \E record \in PriorRecords : store' = [store EXCEPT ![k] = record]
  /\ UNCHANGED <<queue, callerVars, evictions, flowVars, pendingWritten, workerVars>>

\* initRequest(state, groupId, requestId, requestData) with any arguments
LibraryInitRequest(i) ==
  /\ req[i] = NoRequest
  /\ \E op \in Operations, requestData \in RequestDatas :
       /\ req' = [req EXCEPT ![i] = [op |-> op, requestId |-> generateRequestId(i),
                                      requestData |-> requestData,
                                      lastWriter |-> "initRequest"]]
       /\ store' = [store EXCEPT ![<<CallerGroup(op), generateRequestId(i)>>] =
                                    initRequestRecord(requestData)]
  /\ pendingWritten' = [pendingWritten EXCEPT ![i] = TRUE]
  /\ UNCHANGED <<queue, cpc, elapsed, sinceInit, emitCalls, result, response, evictions, flowVars, workerVars>>

\* a worker's terminal write under the key of the request
LibraryWorkerWrite(i) ==
  /\ req[i] # NoRequest
  /\ req[i].lastWriter = "initRequest"
  /\ \E record \in {Completed([value |-> "b"]), Failed("User not found", 400)} :
       store' = [store EXCEPT ![Key(i)] = record]
  /\ req' = [req EXCEPT ![i].lastWriter = "worker"]
  /\ UNCHANGED <<queue, cpc, elapsed, sinceInit, emitCalls, result, response, evictions, flowVars,
                 pendingWritten, workerVars>>

NextLibrary ==
  \/ \E k \in Groups \X FirstRequest : LibraryPriorWrite(k)
  \/ \E i \in FirstRequest : LibraryInitRequest(i)
  \/ \E i \in FirstRequest : LibraryWorkerWrite(i)

SpecLibrary == Init /\ [][NextLibrary]_vars

\* ---------------------------------------------------------------- helpers
Bridge(i) == req[i].op \in OrganizationOperations \cup AdminOperations

\* waitForRequestResult of slot i has returned a value
Returned_(i) == cpc[i] = "done" /\ result[i].status \in {"pending", "completed", "failed"}

PollIntervalOf(op) == IF op = "RagQuery" THEN pollInterval ELSE POLL_INTERVAL_MS

\* the caller of slot i ended its wait without having read a terminal record
ObservedNoTerminal(i) ==
  /\ cpc[i] = "done"
  /\ \/ result[i] = TimeoutResult
     \/ result[i].status = "pending"
     \/ result[i] = [status |-> "thrown", error |-> "Request timeout"]

\* the responses with which a middleware ends a request without calling next()
MiddlewareRejections ==
  {Response(401, [error |-> "Unauthorized - Valid authentication required"]),
   Response(403, [error |-> "Forbidden - Not a member of this organization"]),
   Response(403, [error |-> "Forbidden - Insufficient permissions"]),
   Response(403, [error |-> "Forbidden - Admin access required"])}

\* nothing of the bridge has happened for the request of slot i
NeverReachedBridge(i) ==
  /\ cpc[i] = "done"
  /\ result[i] = NoResult
  /\ ~pendingWritten[i]
  /\ emitCalls[i] = 0
  /\ \A g \in Groups : store[<<g, req[i].requestId>>] = Absent
  /\ ~\E ev \in queue : ev = WorkEvent(req[i].op, req[i].requestId)
  /\ wpc[i] = "idle"
  /\ wwrites[i] = <<>>

\* ------------------------------------------------------------------ claims

\* C1: once a worker has stored a terminal record under a key, no later
\* state.set of a worker changes that key: all terminal records written for
\* one requestId are the same record.
C1_TerminalWrittenOnce ==
  \A i \in Requests : \A m, n \in 1..Len(wwrites[i]) : wwrites[i][m] = wwrites[i][n]

\* C2: a worker invocation that has completed performed exactly one terminal
\* write, completed if the Better Auth call succeeded and failed if not.
C2_ExactlyOneTerminalWrite ==
  \A i \in Requests :
    wpc[i] = "done" =>
      /\ Len(wwrites[i]) = 1
      /\ wwrites[i][1].status = (IF wval[i].called THEN "completed" ELSE "failed")

\* C3: every value waitForRequestResult returns, in the shared library and in
\* the RagQuery copy, has status completed or failed, never pending.
C3_ReturnsOnlyTerminal ==
  \A i \in Requests : Returned_(i) => result[i].status \in {"completed", "failed"}

C5_BoundedWait ==
  /\ [](\A i \in Requests :
          cpc[i] \in {"poll", "done"} =>
            elapsed[i] <= TimeoutOf(req[i].op) + PollIntervalOf(req[i].op))
  /\ [](\A i \in Requests : cpc[i] = "poll" => ENABLED CallerPoll(i))
  /\ [][\A i \in Requests :
          (cpc[i] = "poll" /\ <<cpc[i], elapsed[i]>>' # <<cpc[i], elapsed[i]>>)
            => (cpc'[i] = "done" \/ elapsed'[i] >= elapsed[i] + PollIntervalOf(req[i].op))]_vars

C5_Witness ==
  \E i \in Requests :
    /\ Bridge(i) /\ Returned_(i) /\ result[i] = TimeoutResult
    /\ elapsed[i] > 0
    /\ store[Key(i)] = Absent

\* C6: a Failed{error, statusCode?} result is answered with the stored
\* statusCode, or 400 when the record has none, and the body {error}.
C6_FailedResponse ==
  \A i \in Requests :
    (Returned_(i) /\ result[i].status = "failed") =>
      /\ response[i].status
           = (IF "statusCode" \in DOMAIN result[i] THEN result[i].statusCode ELSE 400)
      /\ response[i].body = [error |-> result[i].error]

\* C7: a bridge caller answers 200 exactly when the record it obtained is
\* Completed{data}, and the body is that data.
C7_OkIffCompleted ==
  \A i \in Requests :
    cpc[i] = "done" =>
      /\ (response[i].status = 200) <=> (result[i].status = "completed")
      /\ response[i].status = 200 => response[i].body = result[i].data

\* C8: a caller that saw no terminal record within its budget answers 504
\* with the message 'Request processing timed out', RagQuery included.
C8_TimeoutResponse ==
  \A i \in Requests :
    ObservedNoTerminal(i) =>
      response[i] = Response(504, [error |-> "Request processing timed out"])

\* C9: a request whose body fails bodySchema.parse in a handler behind
\* errorHandlerMiddleware is answered with 400 and
\* {error: 'Validation failed', details}.
C9_ValidationIs400 ==
  \A i \in Requests :
    (cpc[i] = "done" /\ ~req[i].bodyValid /\ HasMiddleware(req[i].op)
       /\ HandlerInvoked(req[i].op, req[i].session, req[i].role)) =>
      /\ response[i].status = 400
      /\ response[i].body = [error |-> "Validation failed", details |-> "issues"]

\* C10: initRequest has completed before the work event of the request is
\* published, so a worker's terminal write comes after the Pending write and
\* the Pending write never replaces a terminal record.
C10_InitBeforePublish ==
  /\ [](\A i \in Requests :
          ((req[i] # NoRequest /\ \E ev \in queue : ev = WorkEvent(req[i].op, req[i].requestId))
             \/ wpc[i] # "idle"
             \/ wwrites[i] # <<>>) => pendingWritten[i])
  /\ [][\A i \in Requests :
          (pendingWritten'[i] /\ ~pendingWritten[i]) => ~IsTerminal(store[Key(i)'])]_vars

C10_Witness ==
  \E i \in Requests :
    pendingWritten[i] /\ wwrites[i] # <<>> /\ IsTerminal(store[Key(i)])

C12_StoreFailureIs500 ==
  /\ [](\A i \in Requests :
          result[i] = [status |-> "thrown", error |-> "StoreUnavailable"] =>
            /\ cpc[i] = "done"
            /\ response[i].status = 500
            /\ ~pendingWritten[i] =>
                 /\ store[Key(i)] = Absent
                 /\ ~\E ev \in queue : ev = WorkEvent(req[i].op, req[i].requestId))
  /\ [][\A i \in Requests :
          result[i] = [status |-> "thrown", error |-> "StoreUnavailable"] =>
            /\ ~ENABLED CallerInit(i)
            /\ ~ENABLED CallerPoll(i)
            /\ pendingWritten'[i] = pendingWritten[i]
            /\ elapsed'[i] = elapsed[i]]_vars

C12_Witness ==
  \E i \in Requests :
    /\ Bridge(i)
    /\ result[i] = [status |-> "thrown", error |-> "StoreUnavailable"]
    /\ pendingWritten[i]
    /\ elapsed[i] > 0
    /\ response[i] = Response(500, [error |-> CatchMessage(req[i].op)])

\* C13: a terminal record a worker writes after waitForRequestResult has
\* returned the timeout failure is stored, and the caller ignores it: the
\* response it returned stays the 504, it returns no second response and it
\* cannot poll the store again.
C13_LateWriteDiscarded ==
  /\ [][\A i \in Requests :
          response[i] # NoResponse =>
            /\ response'[i] = response[i]
            /\ result'[i] = result[i]
            /\ cpc'[i] = cpc[i]
            /\ elapsed'[i] = elapsed[i]]_vars
  /\ [](\A i \in Requests : response[i] # NoResponse => ~ENABLED CallerPoll(i))
  /\ [][\A i \in Requests :
          (Bridge(i) /\ result[i] = TimeoutResult /\ wwrites'[i] # wwrites[i]) =>
            /\ store'[Key(i)] = wwrites'[i][Len(wwrites'[i])]
            /\ response'[i] = Response(504, [error |-> "Request processing timed out"])]_vars

C13_Witness ==
  \E i \in Requests :
    /\ Bridge(i)
    /\ result[i] = TimeoutResult
    /\ response[i].status = 504
    /\ wwrites[i] # <<>>
    /\ IsTerminal(store[Key(i)])

\* C14: no step of waitForRequestResult changes the store; when it returns
\* the timeout failure and no worker has written, the entry is still the
\* Pending record of initRequest (or absent, if the store evicted it).
C14_WaitNeverWrites ==
  [][\A i \in Requests :
       (cpc[i] = "poll" /\ (cpc'[i] # cpc[i] \/ elapsed'[i] # elapsed[i])) =>
         /\ store' = store
         /\ (Bridge(i) /\ result'[i] = TimeoutResult /\ wwrites[i] = <<>>) =>
              /\ store'[Key(i)] \in {initRequestRecord(EmptyData), Absent}
              /\ store'[Key(i)] = Absent => evictions > 0]_vars

C14_Witness ==
  \E i \in Requests :
    /\ Bridge(i)
    /\ result[i] = TimeoutResult
    /\ wwrites[i] = <<>>
    /\ store[Key(i)] = initRequestRecord(EmptyData)

C16_DeadlineFromInit ==
  \A i \in Requests :
    (Bridge(i) /\ cpc[i] \in {"poll", "done"}) =>
      sinceInit[i] <= TimeoutOf(req[i].op) + PollIntervalOf(req[i].op)

\* C16 (amended): the budget is counted from the call of
\* waitForRequestResult: the timeout failure is returned when between budget
\* and budget + one poll interval have passed since that call, and the time
\* since initRequest is that plus the time the emit took.
C16_DeadlineFromWaitStart ==
  \A i \in Requests :
    (Bridge(i) /\ cpc[i] \in {"poll", "done"}) =>
      /\ elapsed[i] <= TimeoutOf(req[i].op) + PollIntervalOf(req[i].op)
      /\ sinceInit[i] - elapsed[i] \in 0..MaxEmitDelay
      /\ result[i] = TimeoutResult => elapsed[i] >= TimeoutOf(req[i].op)

C16_Witness ==
  \E i \in Requests :
    /\ Bridge(i)
    /\ result[i] = TimeoutResult
    /\ sinceInit[i] > elapsed[i]
    /\ sinceInit[i] > TimeoutOf(req[i].op) + PollIntervalOf(req[i].op)

\* C17: a Completed record returned by waitForRequestResult carries exactly
\* the data a worker wrote under the key of the request, and a bridge
\* handler answers with that data.
C17_CompletedDataRoundTrip ==
  \A i \in Requests :
    (Returned_(i) /\ result[i].status = "completed") =>
      /\ \E n \in 1..Len(wwrites[i]) :
           /\ wwrites[i][n].status = "completed"
           /\ wwrites[i][n].data = result[i].data
      /\ Bridge(i) => response[i] = Response(200, result[i].data)

C17_Witness ==
  \E i \in Requests :
    /\ req[i].op = "UpdateOrganization"
    /\ Returned_(i)
    /\ result[i] = Completed([organization |-> [value |-> "b"]])
    /\ response[i].body = [organization |-> [value |-> "b"]]

\* C19: every terminal record waitForRequestResult reads from the key of the
\* request and returns had been written before by the worker handling that
\* requestId, and is the record the store holds at the read.
C19_ReadsOnlyWorkerWrites ==
  [][\A i \in Requests :
       (cpc[i] = "poll" /\ Returned_(i)' /\ IsTerminal(result'[i])
          /\ result'[i] # TimeoutResult) =>
         /\ \E n \in 1..Len(wwrites[i]) : wwrites[i][n] = result'[i]
         /\ store[Key(i)] = result'[i]
         /\ wval[i].requestId = req[i].requestId]_vars

C19_Witness ==
  \E i \in Requests :
    /\ Bridge(i)
    /\ Returned_(i)
    /\ result[i].status = "failed"
    /\ result[i] # TimeoutResult
    /\ wwrites[i] = <<result[i]>>

C20_ExchangesIsolated ==
  /\ [](\A i, j \in ExchangePair :
          (i # j /\ req[i] # NoRequest /\ req[j] # NoRequest) =>
            /\ Key(i) # Key(j)
            /\ (Returned_(i) /\ IsTerminal(result[i]) /\ result[i] # TimeoutResult) =>
                 \E n \in 1..Len(wwrites[i]) : wwrites[i][n] = result[i])
  /\ [][\A i, j \in ExchangePair :
          (i # j /\ req[i] # NoRequest
             /\ <<cpc[j], elapsed[j], wpc[j], wwrites[j]>>'
                  # <<cpc[j], elapsed[j], wpc[j], wwrites[j]>>) =>
            store'[Key(i)] = store[Key(i)]]_vars
  /\ [][\A i \in ExchangePair :
          (cpc[i] = "poll" /\ Returned_(i)' /\ result'[i] # TimeoutResult) =>
            result'[i] = store[<<"org-requests", req[i].requestId>>]]_vars

C20_Witness ==
  \E i, j \in ExchangePair :
    /\ i # j
    /\ cpc[i] = "poll"
    /\ cpc[j] = "done"
    /\ IsTerminal(store[Key(i)]) /\ store[Key(i)].status = "completed"
    /\ IsTerminal(store[Key(j)]) /\ store[Key(j)].status = "failed"
    /\ Returned_(j)
    /\ result[j] = store[Key(j)]
    /\ wpc[i] = "done"

\* C21: a bridge handler calls emit for its work event at most once per HTTP
\* request: once the call has been made the handler never makes another, and
\* no event of the request enters the queue again, whether the wait ends with
\* a record of the worker, the timeout failure or an exception.
C21_PublishAtMostOnce ==
  /\ [](\A i \in Requests : emitCalls[i] <= 1)
  /\ [][\A i \in Requests :
          (req[i] # NoRequest /\ emitCalls[i] = 1) =>
            /\ emitCalls'[i] = emitCalls[i]
            /\ cpc'[i] # "emit"
            /\ (WorkEvent(req[i].op, req[i].requestId) \notin queue
                  => WorkEvent(req[i].op, req[i].requestId) \notin queue')]_vars

C21_Witness ==
  \E i \in Requests :
    /\ Bridge(i)
    /\ cpc[i] = "done"
    /\ emitCalls[i] = 1
    /\ result[i] = TimeoutResult
    /\ wwrites[i] # <<>>
    /\ wwrites[i][1].status = "failed"
    /\ queue = {}

\* C22: a request whose body fails validation, that a middleware answers
\* with 401 or 403, or that fails the handler's own check (the user lookup of
\* AddOrganizationMember, 404) never reaches the bridge: no record is written
\* under its requestId, no work event is published and no worker runs.
C22_RejectedNeverReachesBridge ==
  \A i \in Requests :
    (req[i] # NoRequest
       /\ (~req[i].bodyValid \/ ~req[i].preCheckOk
             \/ response[i] \in MiddlewareRejections)) =>
      /\ NeverReachedBridge(i)
      /\ (req[i].op = "AddOrganizationMember" /\ ~req[i].preCheckOk /\ req[i].bodyValid
            /\ response[i] \notin MiddlewareRejections) => response[i].status = 404

C22_Witness ==
  \E i \in Requests :
    /\ req[i] # NoRequest
    /\ req[i].op = "AddOrganizationMember"
    /\ req[i].session /\ req[i].role = "owner" /\ req[i].bodyValid
    /\ ~req[i].preCheckOk
    /\ response[i].status = 404
    /\ NeverReachedBridge(i)

\* the status codes of the HTTP surface
HttpStatusCodes == {200, 201, 400, 401, 403, 404, 409, 500, 504}

\* C23: every HTTP response an endpoint produces has a status code in
\* {200, 201, 400, 401, 403, 404, 409, 500, 504}, whatever terminal record
\* the worker wrote and on the timeout and exception paths.
C23_StatusCodesInSet ==
  \A i \in Requests :
    response[i] # NoResponse => response[i].status \in HttpStatusCodes

\* C24: whenever the Better Auth call of a worker has succeeded (the
\* privileged operation took effect), the worker eventually emits the
\* success audit event of the operation.
C24_AuditEventEmitted ==
  \A i \in Requests :
    (wpc[i] = "setCompleted")
      ~> (\E ev \in audit :
            /\ ev.requestId = i
            /\ ev.topic \in {SuccessTopic(topic) : topic \in BridgeTopics})

\* the organization roles the documented policy admits to each endpoint
AllowedRoles(op) ==
  CASE op \in {"DeleteOrganization", "UpdateMemberRole"} -> {"owner"}
    [] op \in {"UpdateOrganization", "AddOrganizationMember", "RemoveOrganizationMember",
               "CreateInvitation", "CancelInvitation"} -> {"owner", "admin"}
    [] op = "LeaveOrganization" -> {"owner", "admin", "member"}

C26_AdminRoleRequired ==
  \A i \in Requests :
    (req[i] # NoRequest /\ req[i].op \in AdminOperations) =>
      /\ ~req[i].session =>
           /\ response[i].status = 401
           /\ NeverReachedBridge(i)
      /\ (req[i].session /\ req[i].role # "admin") =>
           /\ response[i] = Response(403, [error |-> "Forbidden - Admin access required"])
           /\ NeverReachedBridge(i)
      /\ (pendingWritten[i] \/ emitCalls[i] > 0
            \/ \E ev \in queue : ev = WorkEvent(req[i].op, req[i].requestId)) =>
           (req[i].session /\ req[i].role = "admin")

C26_Witness ==
  \E i \in Requests :
    /\ req[i] # NoRequest
    /\ req[i].op = "AdminBanUser"
    /\ req[i].session
    /\ req[i].role = "user"
    /\ response[i].status = 403
    /\ NeverReachedBridge(i)

\* C27: a worker stores a Failed record only when the privileged operation
\* was rejected: when its Better Auth call succeeded, every record it writes
\* is Completed, and a record of the worker that the caller obtains is not
\* Failed.
C27_FailedOnlyWhenRejected ==
  \A i \in Requests :
    (Bridge(i) /\ wval[i] # Undefined /\ wval[i].called) =>
      /\ \A n \in 1..Len(wwrites[i]) : wwrites[i][n].status = "completed"
      /\ (Returned_(i) /\ result[i] # TimeoutResult) => response[i].status = 200

\* C28: when the queue delivers the work event of one requestId more than
\* once, the terminal record stored under the key after a later delivery has
\* been handled equals the record the first delivery left there.
C28_RedeliveryKeepsRecord ==
  \A i \in Requests :
    (Bridge(i) /\ redelivered[i] # <<>> /\ IsTerminal(redelivered[i][1])
       /\ wpc[i] \in {"done", "crashed"}) =>
      store[Key(i)] = redelivered[i][1]

\* C29: for every bridge operation the group literal of the worker equals
\* the group the caller passed to initRequest and waitForRequestResult
\* ('org-requests' for organization, member and invitation operations,
\* 'admin-requests' for admin operations), so a terminal record the worker
\* has written is the entry the caller's next poll reads and returns.
C29_WorkerGroupIsCallerGroup ==
  /\ \A op \in OrganizationOperations \cup AdminOperations :
       /\ WorkerGroup(RequestTopic(op)) = CallerGroup(op)
       /\ CallerGroup(op)
            = (IF op \in OrganizationOperations THEN "org-requests" ELSE "admin-requests")
  /\ \A i \in Requests :
       (Bridge(i) /\ wwrites[i] # <<>> /\ evictions = 0) =>
         /\ WorkerGroup(wval[i].topic) = CallerGroup(req[i].op)
         /\ store[Key(i)] = wwrites[i][Len(wwrites[i])]
         /\ (cpc[i] = "poll" /\ elapsed[i] < TimeoutOf(req[i].op)) =>
              WaitOutcome(req[i].op, store[Key(i)], elapsed[i], TimeoutOf(req[i].op))
                = [kind |-> "return", value |-> wwrites[i][Len(wwrites[i])]]

C29_Witness ==
  \E i \in Requests :
    /\ req[i] # NoRequest
    /\ req[i].op = "AdminBanUser"
    /\ wwrites[i] # <<>>
    /\ store[<<"admin-requests", req[i].requestId>>] = wwrites[i][1]
    /\ Returned_(i)
    /\ result[i] = wwrites[i][1]

\* C30 as stated: whenever a worker has written a terminal record before
\* the timeout budget of the caller's wait has elapsed, waitForRequestResult
\* returns a record the worker wrote and not the synthesized timeout
\* failure, no later than one poll interval after the write.
C30_WriteBeforeBudgetIsReturned ==
  \A i \in Requests :
    (Bridge(i) /\ Returned_(i) /\ wtimes[i] # <<>>
       /\ wtimes[i][1] < TimeoutOf(req[i].op)) =>
      /\ result[i] # TimeoutResult
      /\ \E n \in 1..Len(wwrites[i]) : result[i] = wwrites[i][n]
      /\ elapsed[i] <= wtimes[i][1] + POLL_INTERVAL_MS

\* C30: a terminal record a worker writes more than one poll interval
\* before the budget ends is read by the next state.get of the loop, and
\* waitForRequestResult returns the record stored at that poll, no later
\* than one poll interval after the write; when the wait returns the
\* timeout failure although a worker wrote before the budget ended, the
\* write fell into the last sleep of the loop.
C30_WriteBeforeLastPollIsReturned ==
  \A i \in Requests :
    (Bridge(i) /\ Returned_(i) /\ wtimes[i] # <<>>) =>
      /\ wtimes[i][1] + POLL_INTERVAL_MS < TimeoutOf(req[i].op) =>
           /\ result[i] # TimeoutResult
           /\ \E n \in 1..Len(wwrites[i]) : result[i] = wwrites[i][n]
           /\ elapsed[i] <= wtimes[i][1] + POLL_INTERVAL_MS
      /\ (result[i] = TimeoutResult /\ wtimes[i][1] < TimeoutOf(req[i].op)) =>
           wtimes[i][1] + POLL_INTERVAL_MS = TimeoutOf(req[i].op)

\* a worker wrote during the first sleep of the loop and the poll after it
\* returned the record, one poll interval after the wait began
C30_Witness ==
  \E i \in Requests :
    /\ Bridge(i)
    /\ Returned_(i)
    /\ wtimes[i] # <<>>
    /\ wtimes[i][1] + POLL_INTERVAL_MS < TimeoutOf(req[i].op)
    /\ result[i] = wwrites[i][1]
    /\ elapsed[i] = wtimes[i][1] + POLL_INTERVAL_MS

C33_FreshEmailRegisters ==
  (/\ freq["UserRegistration"] # NoFlowRequest
   /\ freq["UserRegistration"].bodyValid
   /\ ~freq["UserRegistration"].registered
   /\ emitted["user.registration.process"] = 1
   /\ fpc["UserRegistration"] = "done") =>
    fresponse["UserRegistration"].status = 201

\* C34: a UserRegistration request answered 201 is followed by exactly one
\* user.registration.completed event and exactly one
\* user.welcome-email.process event, and by no user.registration.failed
\* event.
C34_RegistrationCompletedOnce ==
  /\ [](fresponse["UserRegistration"].status = 201 =>
          /\ emitted["user.registration.failed"] = 0
          /\ emitted["user.registration.completed"] <= 1
          /\ emitted["user.welcome-email.process"] <= 1)
  /\ (fresponse["UserRegistration"].status = 201) ~>
       (/\ emitted["user.registration.completed"] = 1
        /\ emitted["user.welcome-email.process"] = 1)

\* C35: after a CreateApiKey request answered 201, exactly one API key has
\* been created for the request by the handler and ProcessCreateApiKey
\* together.
C35_OneKeyPerRequest ==
  fresponse["CreateApiKey"].status = 201 =>
    Cardinality(apiKeys \cap {"key of CreateApiKey", "key of ProcessCreateApiKey"}) = 1

\* C36: a DeleteApiKey request for an existing key of the caller, whose
\* process event was emitted, is answered 200, with
\* api-key.deletion.completed emitted at most once and
\* api-key.deletion.failed never, whatever the order of the handler's
\* deleteApiKey and that of ProcessDeleteApiKey.
C36_DeleteOneOutcome ==
  (/\ freq["DeleteApiKey"] # NoFlowRequest
   /\ freq["DeleteApiKey"].session
   /\ freq["DeleteApiKey"].listed
   /\ freq["DeleteApiKey"].owner
   /\ freq["DeleteApiKey"].existed
   /\ emitted["api-key.deletion.process"] = 1) =>
    /\ emitted["api-key.deletion.failed"] = 0
    /\ emitted["api-key.deletion.completed"] <= 1
    /\ fpc["DeleteApiKey"] = "done" => fresponse["DeleteApiKey"].status = 200

\* C37: an AdminDeleteUser request of an admin whose body.userId is the
\* admin's own id is answered 400 {error: 'Cannot delete your own account'};
\* no correlation record is written, no admin.user.delete.requested event
\* is published, and no worker invocation (hence no removeUser call) exists
\* for the request.
C37_NoSelfDeletion ==
  \A i \in Requests :
    (/\ req[i] # NoRequest
     /\ req[i].op = "AdminDeleteUser"
     /\ HandlerInvoked(req[i].op, req[i].session, req[i].role)
     /\ req[i].bodyValid
     /\ ~req[i].preCheckOk) =>
      /\ response[i] = Response(400, [error |-> "Cannot delete your own account"])
      /\ NeverReachedBridge(i)
      /\ wval[i] = Undefined
      /\ \A ev \in queue : ev.topic # "admin.user.delete.requested"
      /\ \A ev \in audit : ev.requestId # i

C37_Witness ==
  \E i \in Requests :
    /\ req[i] # NoRequest
    /\ req[i].op = "AdminDeleteUser"
    /\ req[i].session /\ req[i].role = "admin" /\ req[i].bodyValid
    /\ ~req[i].preCheckOk
    /\ cpc[i] = "done"
    /\ response[i].status = 400
    /\ store[<<"admin-requests", req[i].requestId>>] = Absent

\* C38: in the flow one rag.read.pdfs event starts, the 'Books' collection
\* holds objects inserted by LoadWeaviate only when InitWeaviate, started
\* by the same event, has ended with the collection in existence.
C38_InsertAfterInitWeaviate ==
  weaviate.objects > 0 => fpc["InitWeaviate"] = "done"

====
